---- MODULE Spec2Model ----
(***************************************************************************)
(* A model of the plates interpreter (louis-hildebrand/plates).            *)
(*                                                                         *)
(* The Runtime of src/runtime.rs is modelled as a state machine: the four  *)
(* fields of the struct are variables, Runtime::run is split at its loop   *)
(* head (one action enters run, one action is one iteration of the loop),  *)
(* and every helper of run_instruction is an operator on a record holding  *)
(* the fields, computed as the Rust code computes it.                      *)
(*                                                                         *)
(* Strings are sequences of one-character strings so that starts_with can  *)
(* be computed.  A vector is a sequence whose last element is the top      *)
(* (Vec::push appends, Vec::pop removes the last element).                 *)
(***************************************************************************)
EXTENDS Integers, Sequences, FiniteSets, TLC

(***************************************************************************)
(* Bounds of the model.                                                    *)
(***************************************************************************)
\* longest value_stack explored
MaxStack == 3
\* longest value_stack a single CallIf is tried on
MaxInitStack == 4
\* longest instruction_stack explored
MaxInstr == 5
\* most function invocations that may be pending or recorded at one time
MaxCalls == 4

(***************************************************************************)
(* Program constants.                                                      *)
(***************************************************************************)
\* A u32 is kept as its two 16-bit halves [hi, lo], value hi * 2^16 + lo:
\* the model checker's integers are narrower than 2^32.
Half == 65536
\* the u32 of a number below 2^31
u32(n) == [hi |-> n \div Half, lo |-> n % Half]
\* the number of a u32 below 2^31
ToInt(a) == a.hi * Half + a.lo

ERR_UNDERFLOW == "Runtime error: Stack underflow."
ERR_UNDEFINED == "Runtime error: Undefined argument or function."
ERR_TYPE == "Runtime error: Wrong type."
ERR_UTF32 == "Runtime error: Invalid UTF-32 code point."
ERR_STDOUT == "Environment error: Failed to flush stdout."
ERR_STDIN == "Environment error: Failed to read from stdin."

(***************************************************************************)
(* Sequence helpers.                                                       *)
(***************************************************************************)
Last(s) == s[Len(s)]
Front(s) == SubSeq(s, 1, Len(s) - 1)
\* the value of a `let` binding: the one element of a singleton
Bound(singleton) == CHOOSE x \in singleton : TRUE

Reverse(s) == [j \in 1..Len(s) |-> s[Len(s) + 1 - j]]
Min(a, b) == IF a < b THEN a ELSE b

\* str::starts_with
starts_with(s, prefix) ==
    /\ Len(s) >= Len(prefix)
    /\ SubSeq(s, 1, Len(prefix)) = prefix

(***************************************************************************)
(* Names used by the explored programs.                                    *)
(***************************************************************************)
Str_foo == <<"f", "o", "o">>
Str_bar == <<"b", "a", "r">>
Str_print == <<"_", "_", "p", "r", "i", "n", "t", "_", "_">>
Str_input == <<"_", "_", "i", "n", "p", "u", "t", "_", "_">>
Str_nand == <<"_", "_", "n", "a", "n", "d", "_", "_">>
Str_shift_left ==
    <<"_", "_", "s", "h", "i", "f", "t", "_", "l", "e", "f", "t", "_", "_">>
Str_shift_right ==
    <<"_", "_", "s", "h", "i", "f", "t", "_", "r", "i", "g", "h", "t", "_", "_">>

(***************************************************************************)
(* enum Word { Data(u32), Function(String) }                               *)
(***************************************************************************)
Data(n) == [tag |-> "Data", n |-> n]
Function(f) == [tag |-> "Function", f |-> f]

(***************************************************************************)
(* enum Instruction (src/parser.rs)                                        *)
(***************************************************************************)
PushData(n) == [op |-> "PushData", n |-> n]
PushFunction(f) == [op |-> "PushFunction", f |-> f]
PushRandom == [op |-> "PushRandom"]
PushArg(i) == [op |-> "PushArg", i |-> i]
Define(f, arg_count, body) ==
    [op |-> "Define", f |-> f, arg_count |-> arg_count, body |-> body]
CallIf == [op |-> "CallIf"]
Exit == [op |-> "Exit"]

(***************************************************************************)
(* Result<T, Error>                                                        *)
(***************************************************************************)
Ok(v) == [ok |-> TRUE, val |-> v]
Err(e) == [ok |-> FALSE, err |-> e]

\* what a helper returns: the Runtime it leaves and its Result
Out(rt, res) == [rt |-> rt, res |-> res]

(***************************************************************************)
(* struct Runtime, as a record; Runtime::new()                             *)
(***************************************************************************)
EmptyTable == [x \in {} |-> <<>>]

Runtime_new ==
    [ value_stack |-> <<>>,
      function_table |-> EmptyTable,
      instruction_stack |-> <<>>,
      args_array |-> <<>>,
      stdout |-> <<>> ]

\* HashMap::insert
Insert(table, k, v) ==
    [x \in (DOMAIN table) \cup {k} |-> IF x = k THEN v ELSE table[x]]

(***************************************************************************)
(* The helpers of Runtime::run_instruction.                                *)
(***************************************************************************)
\* a pop_data_from_stack that takes a Function word for the datum 1
pop_data_coerced(rt) ==
    IF rt.value_stack = <<>>
    THEN Out(rt, Err(ERR_UNDERFLOW))
    ELSE LET w == Last(rt.value_stack)
             rt1 == [rt EXCEPT !.value_stack = Front(@)]
         IN  IF w.tag = "Function"
             THEN Out(rt1, Ok(u32(1)))
             ELSE Out(rt1, Ok(w.n))

pop_data_from_stack(rt) ==
    IF rt.value_stack = <<>>
    THEN Out(rt, Err(ERR_UNDERFLOW))
    ELSE LET w == Last(rt.value_stack)
             rt1 == [rt EXCEPT !.value_stack = Front(@)]
         IN  IF w.tag = "Function"
             THEN Out(rt1, Err(ERR_TYPE))
             ELSE Out(rt1, Ok(w.n))

pop_function_from_stack(rt) ==
    IF rt.value_stack = <<>>
    THEN Out(rt, Err(ERR_UNDERFLOW))
    ELSE LET w == Last(rt.value_stack)
             rt1 == [rt EXCEPT !.value_stack = Front(@)]
         IN  IF w.tag = "Data"
             THEN Out(rt1, Err(ERR_TYPE))
             ELSE Out(rt1, Ok(w.f))

run_pushdata(rt, n) ==
    Out([rt EXCEPT !.value_stack = Append(@, Data(n))], Ok(FALSE))

run_pushfunction(rt, f) ==
    Out([rt EXCEPT !.value_stack = Append(@, Function(f))], Ok(FALSE))

\* env.rand is the value self.rng.gen() returns
run_pushrandom(rt, env) ==
    Out([rt EXCEPT !.value_stack = Append(@, Data(env.rand))], Ok(FALSE))

\* a run_pusharg that moves the argument out of args_array
run_pusharg_moves(rt, n) ==
    IF n + 1 > Len(rt.args_array)
    THEN Out(rt, Err(ERR_UNDEFINED))
    ELSE Out([rt EXCEPT !.value_stack = Append(@, rt.args_array[n + 1]),
                        !.args_array = SubSeq(@, 1, n) \o SubSeq(@, n + 2, Len(@))],
             Ok(FALSE))

run_pusharg(rt, n) ==
    IF n + 1 > Len(rt.args_array)
    THEN Out(rt, Err(ERR_UNDEFINED))
    ELSE Out([rt EXCEPT !.value_stack = Append(@, rt.args_array[n + 1])],
             Ok(FALSE))

\* a run_define that keeps the entry of a function already defined
run_define_keeps_first(rt, f, arg_count, body) ==
    IF f \in DOMAIN rt.function_table
    THEN Out(rt, Ok(FALSE))
    ELSE Out([rt EXCEPT !.function_table = Insert(@, f, <<arg_count, body>>)],
             Ok(FALSE))

run_define(rt, f, arg_count, body) ==
    Out([rt EXCEPT !.function_table = Insert(@, f, <<arg_count, body>>)],
        Ok(FALSE))

(***************************************************************************)
(* 32-bit arithmetic of the built-ins.                                     *)
(***************************************************************************)
RECURSIVE BitAnd(_, _)
\* a & b on one half
BitAnd(a, b) ==
    IF a = 0 \/ b = 0
    THEN 0
    ELSE (a % 2) * (b % 2) + 2 * BitAnd(a \div 2, b \div 2)

\* a & b on u32
u32_and(a, b) == [hi |-> BitAnd(a.hi, b.hi), lo |-> BitAnd(a.lo, b.lo)]

u32_not_narrow(a) == [hi |-> a.hi, lo |-> (Half - 1) - a.lo]

\* !a on u32
u32_not(a) == [hi |-> (Half - 1) - a.hi, lo |-> (Half - 1) - a.lo]

u32_shl1_rotate(n) ==
    [hi |-> (n.hi * 2 + n.lo \div (Half \div 2)) % Half,
     lo |-> ((n.lo * 2) % Half) + (n.hi \div (Half \div 2))]

\* n << 1 on u32: the top bit is dropped
u32_shl1(n) ==
    [hi |-> (n.hi * 2 + n.lo \div (Half \div 2)) % Half, lo |-> (n.lo * 2) % Half]

\* n >> 1 on u32: a zero bit comes in at the top
u32_shr1(n) ==
    [hi |-> n.hi \div 2, lo |-> n.lo \div 2 + (n.hi % 2) * (Half \div 2)]

Is_char_below_limit(n) == n.hi <= 16

\* char::from_u32(n).is_some(): a Unicode scalar value, at most 0x10FFFF and
\* outside 0xD800..=0xDFFF
Is_char(n) == n.hi <= 16 /\ ~(n.hi = 0 /\ 55296 <= n.lo /\ n.lo <= 57343)

(***************************************************************************)
(* The built-in functions.                                                 *)
(***************************************************************************)
RECURSIVE call_print(_, _)
\* env.flush_ok: whether std::io::stdout().flush() succeeds
call_print(rt, env) ==
    LET p == pop_data_from_stack(rt)
    IN  IF ~p.res.ok
        THEN Out(p.rt, p.res)
        ELSE IF p.res.val = u32(0)
        THEN IF ~env.flush_ok
             THEN Out(p.rt, Err(ERR_STDOUT))
             ELSE Out(p.rt, Ok(FALSE))
        ELSE IF ~Is_char(p.res.val)
        THEN Out(p.rt, Err(ERR_UTF32))
        ELSE call_print([p.rt EXCEPT !.stdout = Append(@, ToInt(p.res.val))], env)

\* env.line: what stdin().read_line() returns, the characters of the line
\* as code points, or an Err
call_input(rt, env) ==
    IF ~env.line.ok
    THEN Out(rt, Err(ERR_STDIN))
    ELSE Out([rt EXCEPT !.value_stack =
                  @ \o [j \in 1..Len(env.line.val) |-> Data(u32(Reverse(env.line.val)[j]))]],
             Ok(FALSE))

call_nand(rt) ==
    LET a == pop_data_from_stack(rt)
    IN  IF ~a.res.ok
        THEN Out(a.rt, a.res)
        ELSE LET b == pop_data_from_stack(a.rt)
             IN  IF ~b.res.ok
                 THEN Out(b.rt, b.res)
                 ELSE LET result == u32_not(u32_and(a.res.val, b.res.val))
                      IN  Out([b.rt EXCEPT !.value_stack = Append(@, Data(result))],
                              Ok(FALSE))

call_shift_left(rt) ==
    LET n == pop_data_from_stack(rt)
    IN  IF ~n.res.ok
        THEN Out(n.rt, n.res)
        ELSE LET result == u32_shl1(n.res.val)
             IN  Out([n.rt EXCEPT !.value_stack = Append(@, Data(result))],
                     Ok(FALSE))

call_shift_right(rt) ==
    LET n == pop_data_from_stack(rt)
    IN  IF ~n.res.ok
        THEN Out(n.rt, n.res)
        ELSE LET result == u32_shr1(n.res.val)
             IN  Out([n.rt EXCEPT !.value_stack = Append(@, Data(result))],
                     Ok(FALSE))

call_builtin_function(rt, f, env) ==
    CASE f = Str_print -> call_print(rt, env)
      [] f = Str_input -> call_input(rt, env)
      [] f = Str_nand -> call_nand(rt)
      [] f = Str_shift_left -> call_shift_left(rt)
      [] f = Str_shift_right -> call_shift_right(rt)
      [] OTHER -> Out(rt, Err(ERR_UNDEFINED))

(***************************************************************************)
(* User functions.                                                         *)
(***************************************************************************)
RECURSIVE pop_args_front(_, _)
\* a call_custom_function that binds each popped word in front of the
\* earlier ones
pop_args_front(rt, k) ==
    IF k = 0
    THEN Out(rt, Ok(FALSE))
    ELSE IF rt.value_stack = <<>>
    THEN Out(rt, Err(ERR_UNDERFLOW))
    ELSE pop_args_front([rt EXCEPT !.value_stack = Front(@),
                                   !.args_array = <<Last(rt.value_stack)>> \o @],
                        k - 1)

RECURSIVE pop_args_checked(_, _)
\* a call_custom_function that pops no argument unless all are there
pop_args_checked(rt, k) ==
    IF k = 0
    THEN Out(rt, Ok(FALSE))
    ELSE IF Len(rt.value_stack) < k
    THEN Out(rt, Err(ERR_UNDERFLOW))
    ELSE pop_args_checked([rt EXCEPT !.value_stack = Front(@),
                                     !.args_array = Append(@, Last(rt.value_stack))],
                          k - 1)

RECURSIVE pop_args(_, _)
\* the loop `for _ in 0..*arg_count` of call_custom_function, with k
\* iterations left
pop_args(rt, k) ==
    IF k = 0
    THEN Out(rt, Ok(FALSE))
    ELSE IF rt.value_stack = <<>>
    THEN Out(rt, Err(ERR_UNDERFLOW))
    ELSE pop_args([rt EXCEPT !.value_stack = Front(@),
                             !.args_array = Append(@, Last(rt.value_stack))],
                  k - 1)

\* a call_custom_function that leaves under the body an instruction that
\* runs when the body has ended
push_body_with_return(rt, body) ==
    [rt EXCEPT !.instruction_stack = @ \o <<PushRandom>> \o Reverse(body)]

\* a call_custom_function that pushes the body without .rev()
push_body_forward(rt, body) ==
    [rt EXCEPT !.instruction_stack = @ \o body]

\* the loop `for instruction in body.iter().rev()` of call_custom_function
push_body(rt, body) ==
    [rt EXCEPT !.instruction_stack = @ \o Reverse(body)]

\* a call_custom_function that jumps: the body takes the place of what was
\* pending
call_custom_function_jump(rt, f) ==
    IF f \notin DOMAIN rt.function_table
    THEN Out(rt, Err(ERR_UNDEFINED))
    ELSE LET arg_count == rt.function_table[f][1]
             body == rt.function_table[f][2]
             popped == pop_args(rt, ToInt(arg_count))
         IN  IF ~popped.res.ok
             THEN popped
             ELSE Out(push_body([popped.rt EXCEPT !.instruction_stack = <<>>], body),
                      Ok(FALSE))

call_custom_function(rt, f) ==
    IF f \notin DOMAIN rt.function_table
    THEN Out(rt, Err(ERR_UNDEFINED))
    ELSE LET arg_count == rt.function_table[f][1]
             body == rt.function_table[f][2]
             popped == pop_args(rt, ToInt(arg_count))
         IN  IF ~popped.res.ok
             THEN popped
             ELSE Out(push_body(popped.rt, body), Ok(FALSE))

\* a call_function that forgets self.args_array.clear()
clear_args_forgotten(rt) == rt

\* self.args_array.clear()
clear_args(rt) == [rt EXCEPT !.args_array = <<>>]

\* a call_function that keeps the bindings when it calls a built-in
call_function_keeps_args(rt, f, env) ==
    IF starts_with(f, <<"_", "_">>)
    THEN call_builtin_function(rt, f, env)
    ELSE call_custom_function(clear_args(rt), f)

call_function_table_first(rt, f, env) ==
    IF f \in DOMAIN rt.function_table
    THEN call_custom_function(clear_args(rt), f)
    ELSE call_builtin_function(clear_args(rt), f, env)

call_function(rt, f, env) ==
    LET rt1 == clear_args(rt)
    IN  IF starts_with(f, <<"_", "_">>)
        THEN call_builtin_function(rt1, f, env)
        ELSE call_custom_function(rt1, f)

\* a run_callif that calls whatever the datum is
run_callif_always(rt, env) ==
    LET f == pop_function_from_stack(rt)
    IN  IF ~f.res.ok
        THEN Out(f.rt, f.res)
        ELSE LET top_data == pop_data_from_stack(f.rt)
             IN  IF ~top_data.res.ok
                 THEN Out(top_data.rt, top_data.res)
                 ELSE call_function(top_data.rt, f.res.val, env)

run_callif(rt, env) ==
    LET f == pop_function_from_stack(rt)
    IN  IF ~f.res.ok
        THEN Out(f.rt, f.res)
        ELSE LET top_data == pop_data_from_stack(f.rt)
             IN  IF ~top_data.res.ok
                 THEN Out(top_data.rt, top_data.res)
                 ELSE IF top_data.res.val = u32(0)
                 THEN Out(top_data.rt, Ok(FALSE))
                 ELSE call_function(top_data.rt, f.res.val, env)

run_instruction(rt, instruction, env) ==
    CASE instruction.op = "Exit" -> Out(rt, Ok(TRUE))
      [] instruction.op = "PushData" -> run_pushdata(rt, instruction.n)
      [] instruction.op = "PushFunction" -> run_pushfunction(rt, instruction.f)
      [] instruction.op = "PushRandom" -> run_pushrandom(rt, env)
      [] instruction.op = "PushArg" -> run_pusharg(rt, instruction.i)
      [] instruction.op = "Define" ->
            run_define(rt, instruction.f, instruction.arg_count, instruction.body)
      [] instruction.op = "CallIf" -> run_callif(rt, env)

(***************************************************************************)
(* Runtime::run.  run_enter is the push before the loop; run_iteration is  *)
(* one iteration of the loop: returns tells whether run returns, and res   *)
(* is then the value it returns.                                           *)
(***************************************************************************)
\* a run that starts from an empty instruction_stack
run_enter_fresh(rt, instruction) ==
    [rt EXCEPT !.instruction_stack = <<instruction>>]

\* a run that puts its instruction under the ones left on instruction_stack
run_enter_below(rt, instruction) ==
    [rt EXCEPT !.instruction_stack = <<instruction>> \o @]

run_enter(rt, instruction) ==
    [rt EXCEPT !.instruction_stack = Append(@, instruction)]

Iter(rt, returns, res) == [rt |-> rt, returns |-> returns, res |-> res]

\* an Err arm that forgets self.instruction_stack.clear()
run_on_error_kept(rt, res) == Iter(rt, TRUE, res)

\* Err(e) => { self.instruction_stack.clear(); return Err(e); }
run_on_error(rt, res) ==
    Iter([rt EXCEPT !.instruction_stack = <<>>], TRUE, res)

\* an Ok(true) arm that clears instruction_stack as the Err arm does
run_on_exit_clears(rt) ==
    Iter([rt EXCEPT !.instruction_stack = <<>>], TRUE, Ok(TRUE))

\* Ok(true) => return Ok(true)
run_on_exit(rt) == Iter(rt, TRUE, Ok(TRUE))

run_iteration(rt, env) ==
    IF rt.instruction_stack = <<>>
    THEN Iter(rt, TRUE, Ok(FALSE))
    ELSE LET instruction == Last(rt.instruction_stack)
             rt1 == [rt EXCEPT !.instruction_stack = Front(@)]
             out == run_instruction(rt1, instruction, env)
         IN  IF ~out.res.ok
             THEN run_on_error(out.rt, out.res)
             ELSE IF out.res.val
             THEN run_on_exit(out.rt)
             ELSE Iter(out.rt, FALSE, out.res)

\* An iteration of the loop, followed, when it leaves instruction_stack empty
\* without returning, by the iteration that finds it empty and returns
\* Ok(false).
run_step(rt, env) ==
    LET it == run_iteration(rt, env)
    IN  IF it.returns \/ it.rt.instruction_stack # <<>>
        THEN it
        ELSE run_iteration(it.rt, env)

(***************************************************************************)
(* The programs explored: what the callers of run pass and what the        *)
(* environment answers.                                                    *)
(***************************************************************************)
\* the Runtime tells a datum that is 0 from one that is not, and no more
DataVals == {u32(0), u32(1)}
\* samples of self.rng.gen(): any u32
RandomVals == {u32(0), u32(1)}
InputNames == {Str_foo, Str_bar}
ArgIndexes == {0, 1}
\* lines of stdin as code points ("a\n", "\n"), or a read failure
InputLines == {Ok(<<97, 10>>), Ok(<<10>>), Err(ERR_STDIN)}

\* DEFN foo (1) { PUSH 0  PUSH 1  PUSH bar  CALLIF  PUSH $0 }
Def_foo_nested ==
    Define(Str_foo, u32(1),
           <<PushData(u32(0)), PushData(u32(1)), PushFunction(Str_bar), CallIf,
             PushArg(0)>>)
\* DEFN bar (1) { PUSH $0 }
Def_bar_arg == Define(Str_bar, u32(1), <<PushArg(0)>>)
\* DEFN bar (0) { PUSH $0 }
Def_bar_bad == Define(Str_bar, u32(0), <<PushArg(0)>>)
\* DEFN bar (0) { PUSH 1  EXIT  PUSH 0 }
Def_bar_exit ==
    Define(Str_bar, u32(0), <<PushData(u32(1)), Exit, PushData(u32(0))>>)
\* DEFN bar (2) { PUSH $1 }
Def_bar_two == Define(Str_bar, u32(2), <<PushArg(1)>>)

\* the definitions a session makes
Definitions == {Def_foo_nested, Def_bar_arg, Def_bar_bad, Def_bar_exit}

Instructions ==
    {PushData(n) : n \in DataVals}
        \cup {PushFunction(f) : f \in InputNames}
        \cup {PushRandom}
        \cup {PushArg(n) : n \in ArgIndexes}
        \cup Definitions
        \cup {CallIf, Exit}

DefaultEnv == [rand |-> u32(0), line |-> Ok(<<10>>), flush_ok |-> TRUE]

\* the answers of the environment an instruction can observe
Envs(instruction) ==
    CASE instruction.op = "PushRandom" ->
            {[DefaultEnv EXCEPT !.rand = r] : r \in RandomVals}
      [] instruction.op = "CallIf" ->
            {[DefaultEnv EXCEPT !.line = l, !.flush_ok = b] :
                l \in InputLines, b \in BOOLEAN}
      [] OTHER -> {DefaultEnv}

(***************************************************************************)
(* The Lexer of src/lexer.rs.  A line of source text is a sequence of      *)
(* one-character strings; the characters explored are ASCII, one byte      *)
(* each, so that a count of characters is a byte index.  A token is a      *)
(* record tagged by t.                                                     *)
(***************************************************************************)
Token_Push == [t |-> "Push"]
Token_Defn == [t |-> "Defn"]
Token_CallIf == [t |-> "CallIf"]
Token_Exit == [t |-> "Exit"]
Token_Asterisk == [t |-> "Asterisk"]
Token_LeftCurlyBracket == [t |-> "LeftCurlyBracket"]
Token_RightCurlyBracket == [t |-> "RightCurlyBracket"]
Token_FunctionName(f) == [t |-> "FunctionName", f |-> f]
Token_Word(n) == [t |-> "Word", n |-> n]
Token_LeftParen == [t |-> "LeftParen"]
Token_RightParen == [t |-> "RightParen"]
Token_Argument(i) == [t |-> "Argument", i |-> i]

\* Option
None == [some |-> FALSE]
Some(x) == [some |-> TRUE, x |-> x]

\* a panic of the thread: what the caller gets is no Result at all
Panic(msg) == [ok |-> FALSE, err |-> [panic |-> msg]]

\* char::is_whitespace, char::is_ascii_digit, char::is_alphabetic and
\* char::is_alphanumeric on the ASCII characters
AsciiDigits == <<"0", "1", "2", "3", "4", "5", "6", "7", "8", "9">>
LowerCase ==
    {"a", "b", "c", "d", "e", "f", "g", "h", "i", "j", "k", "l", "m", "n", "o",
     "p", "q", "r", "s", "t", "u", "v", "w", "x", "y", "z"}
UpperCase ==
    {"A", "B", "C", "D", "E", "F", "G", "H", "I", "J", "K", "L", "M", "N", "O",
     "P", "Q", "R", "S", "T", "U", "V", "W", "X", "Y", "Z"}
is_whitespace(c) == c \in {" ", "\t", "\n", "\r"}
is_ascii_digit(c) == \E d \in 1..10 : AsciiDigits[d] = c
is_alphabetic(c) == c \in LowerCase \cup UpperCase
is_alphanumeric(c) == is_alphabetic(c) \/ is_ascii_digit(c)

\* c.to_digit(10) of a digit
to_digit(c) == (CHOOSE d \in 1..10 : AsciiDigits[d] = c) - 1

\* &source[i..]
Skip(source, i) == SubSeq(source, i + 1, Len(source))
\* &source[..i]
Take(source, i) == SubSeq(source, 1, i)

Str_PUSH == <<"P", "U", "S", "H">>
Str_DEFN == <<"D", "E", "F", "N">>
Str_CALLIF == <<"C", "A", "L", "L", "I", "F">>
Str_EXIT == <<"E", "X", "I", "T">>

\* the loop of consume_whitespace and of consume_base10_int: the first i >= k
\* at which source has no character P accepts, where both loops start at 1
RECURSIVE scan_while(_, _, _)
scan_while(source, i, digits) ==
    IF i >= Len(source)
    THEN i
    ELSE IF digits /\ ~is_ascii_digit(source[i + 1]) THEN i
    ELSE IF ~digits /\ ~is_whitespace(source[i + 1]) THEN i
    ELSE scan_while(source, i + 1, digits)

consume_whitespace(source) == Skip(source, scan_while(source, 1, FALSE))

\* a parse that wraps around at 2^32 (wrapping_mul, wrapping_add)
RECURSIVE parse_digits_wrapping(_, _)
parse_digits_wrapping(text, acc) ==
    IF text = <<>>
    THEN Ok(acc)
    ELSE IF ~is_ascii_digit(text[1])
    THEN Err("invalid digit found in string")
    ELSE LET lo == acc.lo * 10 + to_digit(text[1])
             hi == acc.hi * 10 + (lo \div Half)
         IN  parse_digits_wrapping(Skip(text, 1),
                                   [hi |-> hi % Half, lo |-> lo % Half])

\* str::parse::<u32>: an optional '+', then one digit at least, no other
\* character, and a value below 2^32 (checked_mul by 10, checked_add)
RECURSIVE parse_digits(_, _)
parse_digits(text, acc) ==
    IF text = <<>>
    THEN Ok(acc)
    ELSE IF ~is_ascii_digit(text[1])
    THEN Err("invalid digit found in string")
    ELSE LET lo == acc.lo * 10 + to_digit(text[1])
             hi == acc.hi * 10 + (lo \div Half)
         IN  IF hi >= Half
             THEN Err("number too large to fit in target type")
             ELSE parse_digits(Skip(text, 1), [hi |-> hi, lo |-> lo % Half])

parse_u32(text) ==
    LET digits == IF text # <<>> /\ text[1] = "+" THEN Skip(text, 1) ELSE text
    IN  IF text = <<>>
        THEN Err("cannot parse integer from empty string")
        ELSE IF digits = <<>>
        THEN Err("invalid digit found in string")
        ELSE parse_digits(digits, u32(0))

\* the message of consume_base10_int, with the text it names
Invalid_word(text) == [msg |-> "Syntax error: Invalid word", text |-> text]

\* Result<(u32, &str), Error>
consume_base10_int(source) ==
    Bound({
        IF i > Len(source)
        THEN Panic("byte index out of range")
        ELSE Bound({
                IF ~n.ok
                THEN Err(Invalid_word(Take(source, i)))
                ELSE Ok([n |-> n.val, rest |-> Skip(source, i)]) :
                n \in {parse_u32(Take(source, i))}}) :
        i \in {scan_while(source, 1, TRUE)}})

\* Ok of consume_token and its helpers: the token, if any, and the source left
Consumed(token, rest) == Ok([token |-> token, rest |-> rest])

consume_word(source) ==
    Bound({
        IF ~r.ok THEN r ELSE Consumed(Some(Token_Word(r.val.n)), r.val.rest) :
        r \in {consume_base10_int(source)}})

\* the prefix get_symbol returns: the characters before the first that is
\* neither alphanumeric nor '_'
RECURSIVE symbol_len(_, _)
symbol_len(source, i) ==
    IF i >= Len(source)
    THEN Len(source)
    ELSE IF ~is_alphanumeric(source[i + 1]) /\ source[i + 1] # "_"
    THEN i
    ELSE symbol_len(source, i + 1)

\* a get_symbol that splits a keyword off the front of a longer run
get_symbol_keyword_first(source) ==
    LET i == symbol_len(source, 0)
        k == IF starts_with(source, Str_CALLIF) THEN 6
             ELSE IF \/ starts_with(source, Str_PUSH)
                     \/ starts_with(source, Str_DEFN)
                     \/ starts_with(source, Str_EXIT)
             THEN 4
             ELSE i
    IN  <<Take(source, k), Skip(source, k)>>

get_symbol(source) ==
    LET i == symbol_len(source, 0)
    IN  <<Take(source, i), Skip(source, i)>>

\* a consume_symbol that knows no keyword
consume_symbol_names_only(source) ==
    Bound({Consumed(Some(Token_FunctionName(got[1])), got[2]) :
           got \in {get_symbol(source)}})

consume_symbol(source) ==
    Bound({
        LET symbol == got[1]
            updated_source == got[2]
        IN  CASE symbol = Str_PUSH -> Consumed(Some(Token_Push), updated_source)
              [] symbol = Str_DEFN -> Consumed(Some(Token_Defn), updated_source)
              [] symbol = Str_CALLIF -> Consumed(Some(Token_CallIf), updated_source)
              [] symbol = Str_EXIT -> Consumed(Some(Token_Exit), updated_source)
              [] OTHER -> Consumed(Some(Token_FunctionName(symbol)), updated_source) :
        got \in {get_symbol(source)}})

\* usize::try_from(n) of a u32 is n (usize is no narrower than u32)
consume_argument(source) ==
    Bound({
        IF ~r.ok
        THEN r
        ELSE Consumed(Some(Token_Argument(ToInt(r.val.n))), r.val.rest) :
        r \in {consume_base10_int(Skip(source, 1))}})

Unexpected_character(c) ==
    [msg |-> "Syntax error: Unexpected character", text |-> <<c>>]

RECURSIVE consume_token(_)
consume_token(source) ==
    IF source = <<>>
    THEN Consumed(None, source)
    ELSE LET c == source[1]
         IN  CASE c = "*" -> Consumed(Some(Token_Asterisk), Skip(source, 1))
               [] c = "{" -> Consumed(Some(Token_LeftCurlyBracket), Skip(source, 1))
               [] c = "}" -> Consumed(Some(Token_RightCurlyBracket), Skip(source, 1))
               [] c = "(" -> Consumed(Some(Token_LeftParen), Skip(source, 1))
               [] c = ")" -> Consumed(Some(Token_RightParen), Skip(source, 1))
               [] c = "$" -> consume_argument(source)
               [] is_whitespace(c) -> consume_token(consume_whitespace(source))
               [] is_ascii_digit(c) -> consume_word(source)
               [] OTHER ->
                    IF starts_with(source, <<"/", "/">>)
                    THEN Consumed(None, source)
                    ELSE IF is_alphabetic(c) \/ c = "_"
                    THEN consume_symbol(source)
                    ELSE Err(Unexpected_character(c))

\* lex_line: the tokens of a line, or the first error met
RECURSIVE lex_from(_, _)
lex_from(tokens, my_source) ==
    Bound({
        IF ~r.ok
        THEN r
        ELSE IF ~r.val.token.some
        THEN Ok(tokens)
        ELSE lex_from(Append(tokens, r.val.token.x), r.val.rest) :
        r \in {consume_token(my_source)}})

lex_line(source) == lex_from(<<>>, source)

\* A Lexer: the queue of tokens and the Reader, which is the lines it has
\* still to give (a FileReader; depth is not used by it).
Lexer_new(reader) == [tokens |-> <<>>, reader |-> reader]

\* a clear that drops the next token only
clear_next_only(lx) == [lx EXCEPT !.tokens = Skip(@, 1)]

\* Lexer::clear
clear(lx) == [lx EXCEPT !.tokens = <<>>]

\* Lexer::full_line_consumed
full_line_consumed(lx) == lx.tokens = <<>>

\* Reader::next_line
next_line(reader, depth) ==
    IF reader = <<>>
    THEN [line |-> None, reader |-> reader]
    ELSE [line |-> Some(reader[1]), reader |-> Skip(reader, 1)]

\* a refill_tokens that leaves in the Reader a line it failed to lex
refill_tokens_keeps_line(lx, depth) ==
    Bound({
        IF ~got.line.some
        THEN [lx |-> lx, res |-> Ok(FALSE)]
        ELSE Bound({
                IF ~new_tokens.ok
                THEN [lx |-> lx, res |-> new_tokens]
                ELSE [lx |-> [lx EXCEPT !.reader = got.reader,
                                        !.tokens = @ \o new_tokens.val],
                      res |-> Ok(TRUE)] :
                new_tokens \in {lex_line(got.line.x)}}) :
        got \in {next_line(lx.reader, depth)}})

\* refill_tokens: Result<bool, Error>, and the Lexer after it
refill_tokens(lx, depth) ==
    Bound({
        LET lx1 == [lx EXCEPT !.reader = got.reader]
        IN  IF ~got.line.some
            THEN [lx |-> lx1, res |-> Ok(FALSE)]
            ELSE Bound({
                    IF ~new_tokens.ok
                    THEN [lx |-> lx1, res |-> new_tokens]
                    ELSE [lx |-> [lx1 EXCEPT !.tokens = @ \o new_tokens.val],
                          res |-> Ok(TRUE)] :
                    new_tokens \in {lex_line(got.line.x)}}) :
        got \in {next_line(lx.reader, depth)}})

\* Lexer::next_token: Result<Option<Token>, Error>, and the Lexer after it
RECURSIVE next_token(_, _)
next_token(lx, depth) ==
    IF lx.tokens # <<>>
    THEN [lx |-> [lx EXCEPT !.tokens = Skip(@, 1)], res |-> Ok(Some(lx.tokens[1]))]
    ELSE Bound({
            IF ~r.res.ok
            THEN r
            ELSE IF ~r.res.val
            THEN [lx |-> r.lx, res |-> Ok(None)]
            ELSE next_token(r.lx, depth) :
            r \in {refill_tokens(lx, depth)}})

(***************************************************************************)
(* The Parser of src/parser.rs over the Lexer as its token stream.  A      *)
(* Parser is a record of its fields and of one history field, requests:    *)
(* for every call of next_token since the last call of next_instruction,   *)
(* the depth passed, the place of the parser that called, whether it was   *)
(* inside a DEFN body, and what the call returned.                         *)
(***************************************************************************)
Parser_new(token_stream) ==
    [token_stream |-> token_stream, depth |-> 0, requests |-> <<>>]

\* a clear_line that leaves the tokens of the line in the queue
clear_line_kept(p) == p

\* Parser::clear_line
clear_line(p) == [p EXCEPT !.token_stream = clear(@)]

\* the errors of the parser, with what their messages name
Unexpected_token(t) == [msg |-> "Syntax error: Unexpected token", token |-> t]
Eof_after(t) ==
    [msg |-> "Syntax error: Unexpected end of file after token", token |-> t]
Eof_in_body(func_name) ==
    [msg |-> "Syntax error: Unexpected end of file in body of function",
     text |-> func_name]
Eof_in_signature(func_name) ==
    [msg |-> "Syntax error: Unexpected end of file in signature of function",
     text |-> func_name]
Nested_definitions == [msg |-> "Syntax error: Nested definitions are not allowed."]
Arguments_outside == [msg |-> "Syntax error: Cannot use arguments outside functions."]
Reserved_prefix(func_name) ==
    [msg |-> "Syntax error: Cannot define function because the prefix '__' is reserved for built-in functions.",
     text |-> func_name]

\* a parser and what one of its functions returned
Parsed(p, res) == [p |-> p, res |-> res]

\* a request that passes depth 0 whatever self.depth is
request_token_flat(p, place, inside_defn) ==
    Bound({Parsed([p EXCEPT !.token_stream = r.lx,
                            !.requests = Append(@, [depth |-> 0,
                                                    place |-> place,
                                                    inside_defn |-> inside_defn,
                                                    got |-> r.res])],
                  r.res) :
           r \in {next_token(p.token_stream, 0)}})

\* self.token_stream.next_token(self.depth)
request_token(p, place, inside_defn) ==
    Bound({Parsed([p EXCEPT !.token_stream = r.lx,
                            !.requests = Append(@, [depth |-> p.depth,
                                                    place |-> place,
                                                    inside_defn |-> inside_defn,
                                                    got |-> r.res])],
                  r.res) :
           r \in {next_token(p.token_stream, p.depth)}})

\* a consume_push that forgets self.depth -= 1
leave_push_kept(p) == p

\* self.depth -= 1 at the end of consume_push
leave_push(p) == [p EXCEPT !.depth = @ - 1]

\* a consume_push that accepts an Argument token anywhere
argument_allowed_anywhere(inside_defn) == TRUE

\* the guard `if !inside_defn` of the Argument arm of consume_push, negated
argument_allowed(inside_defn) == inside_defn

consume_push(p, inside_defn) ==
    Bound({
        LET t == r.res.val
        IN  IF ~r.res.ok
            THEN r
            ELSE IF ~t.some
            THEN Parsed(r.p, Err(Eof_after(Token_Push)))
            ELSE CASE t.x.t = "Word" ->
                        Parsed(leave_push(r.p), Ok(Some(PushData(t.x.n))))
                   [] t.x.t = "FunctionName" ->
                        Parsed(leave_push(r.p), Ok(Some(PushFunction(t.x.f))))
                   [] t.x.t = "Asterisk" ->
                        Parsed(leave_push(r.p), Ok(Some(PushRandom)))
                   [] t.x.t = "Argument" ->
                        IF ~argument_allowed(inside_defn)
                        THEN Parsed(r.p, Err(Arguments_outside))
                        ELSE Parsed(leave_push(r.p), Ok(Some(PushArg(t.x.i))))
                   [] OTHER -> Parsed(r.p, Err(Unexpected_token(t.x))) :
        r \in {request_token([p EXCEPT !.depth = @ + 1], "operand", inside_defn)}})

\* an expect that takes any token for the one expected
expect_any(p, token, eof_msg) ==
    Bound({
        IF ~r.res.ok
        THEN r
        ELSE IF ~r.res.val.some
        THEN Parsed(r.p, Err(eof_msg))
        ELSE Parsed(r.p, Ok(TRUE)) :
        r \in {request_token(p, "signature", FALSE)}})

\* Parser::expect
expect(p, token, eof_msg) ==
    Bound({
        IF ~r.res.ok
        THEN r
        ELSE IF ~r.res.val.some
        THEN Parsed(r.p, Err(eof_msg))
        ELSE IF r.res.val.x = token
        THEN Parsed(r.p, Ok(TRUE))
        ELSE Parsed(r.p, Err(Unexpected_token(r.res.val.x))) :
        r \in {request_token(p, "signature", FALSE)}})

\* a consume_defn that does not check the prefix of the name
is_reserved_unchecked(func_name) == FALSE

\* func_name.starts_with("__")
is_reserved(func_name) == starts_with(func_name, <<"_", "_">>)

\* a consume_instruction that lets a DEFN start inside a body
nested_defn_never_blocked(inside_defn) == FALSE

\* the guard `if inside_defn` of the first Defn arm of consume_instruction
nested_defn_blocked(inside_defn) == inside_defn

RECURSIVE consume_instruction(_, _, _)
RECURSIVE consume_defn_body(_, _, _)

\* the end of the signature of consume_defn: ) {
consume_signature_end(n, func_name) ==
    Bound({
        IF ~b.res.ok
        THEN b
        ELSE Bound({
                IF ~c.res.ok THEN c ELSE Parsed(c.p, Ok(n.res.val.x.n)) :
                c \in {expect(b.p, Token_LeftCurlyBracket,
                              Eof_in_signature(func_name))}}) :
        b \in {expect(n.p, Token_RightParen, Eof_in_signature(func_name))}})

\* the signature of consume_defn once the name is read: ( Word ) {
consume_signature(p, func_name) ==
    Bound({
        IF ~a.res.ok
        THEN a
        ELSE Bound({
                IF ~n.res.ok
                THEN n
                ELSE IF ~n.res.val.some
                THEN Parsed(n.p, Err(Eof_in_signature(func_name)))
                ELSE IF n.res.val.x.t # "Word"
                THEN Parsed(n.p, Err(Unexpected_token(n.res.val.x)))
                ELSE consume_signature_end(n, func_name) :
                n \in {request_token(a.p, "signature", FALSE)}}) :
        a \in {expect(p, Token_LeftParen, Eof_in_signature(func_name))}})

\* consume_defn once the name is read and found free
consume_defn_named(p, func_name) ==
    Bound({
        IF ~arg_count.res.ok
        THEN arg_count
        ELSE Bound({
                IF ~body.res.ok
                THEN body
                ELSE Parsed([body.p EXCEPT !.depth = @ - 1],
                            Ok(Some(Define(func_name, arg_count.res.val,
                                           body.res.val)))) :
                body \in {consume_defn_body(arg_count.p, func_name, <<>>)}}) :
        arg_count \in {consume_signature(p, func_name)}})

consume_defn(p) ==
    Bound({
        LET t == r.res.val
        IN  IF ~r.res.ok
            THEN r
            ELSE IF ~t.some
            THEN Parsed(r.p, Err(Eof_after(Token_Defn)))
            ELSE IF t.x.t # "FunctionName"
            THEN Parsed(r.p, Err(Unexpected_token(t.x)))
            ELSE IF is_reserved(t.x.f)
            THEN Parsed(r.p, Err(Reserved_prefix(t.x.f)))
            ELSE consume_defn_named(r.p, t.x.f) :
        r \in {request_token([p EXCEPT !.depth = @ + 1], "name", FALSE)}})

\* the loop of consume_defn_body, body being the instructions pushed so far
consume_defn_body(p, func_name, body) ==
    Bound({
        IF ~r.res.ok
        THEN r
        ELSE IF ~r.res.val.some
        THEN Parsed(r.p, Ok(body))
        ELSE consume_defn_body(r.p, func_name, Append(body, r.res.val.x)) :
        r \in {consume_instruction(p, TRUE, func_name)}})

consume_instruction(p, inside_defn, func_name) ==
    Bound({
        LET t == r.res.val
        IN  IF ~r.res.ok
            THEN r
            ELSE IF ~t.some
            THEN IF inside_defn
                 THEN Parsed(r.p, Err(Eof_in_body(func_name)))
                 ELSE Parsed(r.p, Ok(None))
            ELSE CASE t.x.t = "Push" -> consume_push(r.p, inside_defn)
                   [] t.x.t = "Defn" ->
                        IF nested_defn_blocked(inside_defn)
                        THEN Parsed(r.p, Err(Nested_definitions))
                        ELSE consume_defn(r.p)
                   [] t.x.t = "CallIf" -> Parsed(r.p, Ok(Some(CallIf)))
                   [] t.x.t = "Exit" -> Parsed(r.p, Ok(Some(Exit)))
                   [] t.x.t = "RightCurlyBracket" /\ inside_defn ->
                        Parsed(r.p, Ok(None))
                   [] OTHER -> Parsed(r.p, Err(Unexpected_token(t.x))) :
        r \in {request_token(p, "instruction", inside_defn)}})

\* a next_instruction that returns the error without resetting the depth
reset_depth_forgotten(p) == p

\* self.depth = 0 in the Err arm of next_instruction
reset_depth(p) == [p EXCEPT !.depth = 0]

\* a next_instruction that clears the line after an error
next_instruction_clears(p) ==
    Bound({
        IF ~r.res.ok THEN Parsed(clear_line(reset_depth(r.p)), r.res) ELSE r :
        r \in {consume_instruction([p EXCEPT !.requests = <<>>], FALSE, <<>>)}})

\* Parser::next_instruction; the history of requests starts anew
next_instruction(p) ==
    Bound({
        IF ~r.res.ok THEN Parsed(reset_depth(r.p), r.res) ELSE r :
        r \in {consume_instruction([p EXCEPT !.requests = <<>>], FALSE, <<>>)}})

(***************************************************************************)
(* State.  The first five variables are the Runtime (stdout stands for the *)
(* characters printed so far); pc and ret are the position of the caller   *)
(* of run and the value run returned last.  The others are history         *)
(* variables, read by the properties and never by the Runtime:             *)
(*   frames    the invocations recorded since instruction_stack was last   *)
(*             empty at a call of run: one per run call (user = FALSE, the *)
(*             body is the instruction passed) and one per user function   *)
(*             invoked, with the arity and body it had, args_array before  *)
(*             the call and after it (the arguments bound), and the count  *)
(*             of its instructions executed;                               *)
(*   tags      for each entry of instruction_stack, the invocation that    *)
(*             scheduled it and its position in that body;                 *)
(*   argsOwner the invocation whose call wrote args_array last, 0 if none; *)
(*   runInv    the invocation of the current (or last) run call;           *)
(*   last      the instruction executed last, the invocation and position  *)
(*             it had, and for a CallIf the operands it found.             *)
(* Then come the Lexer (tokens, the queue, and reader, the lines the       *)
(* Reader has still to give) and the Parser (depth, and the history of its *)
(* token requests), and one more history variable:                         *)
(*   parsed    what the calls of next_instruction (of next_token where the  *)
(*             Lexer is called directly) have returned so far, in order.   *)
(* host is the function of src/main.rs that drives the Parser and the      *)
(* Runtime.                                                                *)
(***************************************************************************)
VARIABLES value_stack, function_table, instruction_stack, args_array, stdout,
          pc, ret, frames, tags, argsOwner, runInv, last,
          tokens, reader, depth, requests, parsed, host

vars == <<value_stack, function_table, instruction_stack, args_array, stdout,
          pc, ret, frames, tags, argsOwner, runInv, last,
          tokens, reader, depth, requests, parsed, host>>

\* the variables of the Runtime and of its histories
rvars == <<value_stack, function_table, instruction_stack, args_array, stdout,
           pc, ret, frames, tags, argsOwner, runInv, last>>

\* the variables of the Lexer and the Parser and of their histories
pvars == <<tokens, reader, depth, requests, parsed, host>>

\* the Lexer and the Parser before any line is read
InitParser ==
    /\ tokens = <<>>
    /\ reader = <<>>
    /\ depth = 0
    /\ requests = <<>>
    /\ parsed = <<>>
    /\ host = "run_interactive"

RT ==
    [ value_stack |-> value_stack,
      function_table |-> function_table,
      instruction_stack |-> instruction_stack,
      args_array |-> args_array,
      stdout |-> stdout ]

SetRuntime(rt) ==
    /\ value_stack' = rt.value_stack
    /\ function_table' = rt.function_table
    /\ instruction_stack' = rt.instruction_stack
    /\ args_array' = rt.args_array
    /\ stdout' = rt.stdout

\* ret: <<>> while run is running (and before its first call), <<r>> once it
\* has returned r
NoRet == <<>>
NoStep == [ins |-> Exit, inv |-> 0, idx |-> 0, ops |-> <<>>]

Init ==
    /\ value_stack = Runtime_new.value_stack
    /\ function_table = Runtime_new.function_table
    /\ instruction_stack = Runtime_new.instruction_stack
    /\ args_array = Runtime_new.args_array
    /\ stdout = Runtime_new.stdout
    /\ pc = "idle"
    /\ ret = NoRet
    /\ frames = <<>>
    /\ tags = <<>>
    /\ argsOwner = 0
    /\ runInv = 0
    /\ last = NoStep
    /\ InitParser

\* The (at most two) words a CallIf finds on top of the stack, the top last.
Operands(vs) == SubSeq(vs, Len(vs) - Min(Len(vs), 2) + 1, Len(vs))

\* The word under the function word of a CallIf is a non-zero datum: the
\* CallIf calls.
Calls(vs) ==
    /\ Len(vs) >= 2
    /\ vs[Len(vs)].tag = "Function"
    /\ vs[Len(vs) - 1].tag = "Data"
    /\ vs[Len(vs) - 1].n # u32(0)

\* The CallIf calls a user function that is defined and finds its arguments.
CallsUser(vs, table) ==
    /\ Calls(vs)
    /\ ~starts_with(vs[Len(vs)].f, <<"_", "_">>)
    /\ vs[Len(vs)].f \in DOMAIN table
    /\ ToInt(table[vs[Len(vs)].f][1]) <= Len(vs) - 2

Frame(user, f, arity, before, args, body) ==
    [user |-> user, f |-> f, arity |-> arity, before |-> before, args |-> args,
     body |-> body, done |-> 0]

\* The loop of run executes the instruction on top of rt.instruction_stack,
\* which invocation fr[Last(tg).inv] scheduled.
Iterate(rt, fr, tg, owner) ==
    \E env \in Envs(Last(rt.instruction_stack)) :
        \E it \in {run_step(rt, env)} :
        LET
            instruction == Last(rt.instruction_stack)
            t == Last(tg)
            n1 == Len(it.rt.instruction_stack)
            kept == Min(Len(tg) - 1, n1)
            pushed == n1 - kept
            calls == instruction.op = "CallIf" /\ Calls(rt.value_stack)
            user == instruction.op = "CallIf"
                        /\ CallsUser(rt.value_stack, rt.function_table)
            f == Last(rt.value_stack).f
            id == Len(fr) + 1
            fr1 == [fr EXCEPT ![t.inv].done = @ + 1]
        IN  /\ Len(it.rt.value_stack) <= MaxStack
            /\ n1 <= MaxInstr
            /\ (user \/ pushed > 0) => id <= MaxCalls
            /\ SetRuntime(it.rt)
            /\ pc' = IF it.returns THEN "idle" ELSE "loop"
            /\ ret' = IF it.returns THEN <<it.res>> ELSE NoRet
            /\ frames' =
                  IF user
                  THEN Append(fr1,
                              Frame(TRUE, f, ToInt(rt.function_table[f][1]),
                                    rt.args_array, it.rt.args_array,
                                    rt.function_table[f][2]))
                  ELSE IF pushed > 0
                  THEN Append(fr1, Frame(FALSE, <<>>, 0, <<>>, it.rt.args_array, <<>>))
                  ELSE fr1
            /\ tags' = SubSeq(tg, 1, kept)
                          \o [j \in 1..pushed |-> [inv |-> id, idx |-> pushed + 1 - j]]
            /\ argsOwner' = IF user THEN id ELSE IF calls THEN 0 ELSE owner
            /\ last' = [ins |-> instruction, inv |-> t.inv, idx |-> t.idx,
                         ops |-> IF instruction.op = "CallIf"
                                 THEN Operands(rt.value_stack)
                                 ELSE <<>>]

\* A caller calls run(instruction): the push and the first iteration of the
\* loop, which executes the instruction pushed.
Run(instruction) ==
    /\ pc = "idle"
    /\ LET rt1 == run_enter(RT, instruction)
           kept == IF instruction_stack = <<>> THEN <<>> ELSE frames
           id == Len(kept) + 1
       IN  /\ Len(rt1.instruction_stack) <= MaxInstr
           /\ id <= MaxCalls
           /\ runInv' = id
           /\ Iterate(rt1,
                      Append(kept, Frame(FALSE, <<>>, 0, <<>>, <<>>, <<instruction>>)),
                      Append(SubSeq(tags, 1, Len(instruction_stack)),
                             [inv |-> id, idx |-> 1]),
                      IF instruction_stack = <<>> THEN 0 ELSE argsOwner)

\* A later iteration of the loop of run.
RunLoop ==
    /\ pc = "loop"
    /\ runInv' = runInv
    /\ Iterate(RT, frames, tags, argsOwner)

Next ==
    \/ \E instruction \in Instructions : Run(instruction) /\ UNCHANGED pvars
    \/ RunLoop /\ UNCHANGED pvars

Spec == Init /\ [][Next]_vars

(***************************************************************************)
(* A single CallIf on every small Runtime: the stacks, tables and bindings *)
(* a session can have built, then run(CallIf) and the body it schedules.   *)
(***************************************************************************)
InitWords ==
    {Data(u32(0)), Data(u32(1)), Data(u32(2)), Function(Str_foo),
     Function(Str_bar)}

\* the table after running the definition d
Defined(table, d) == run_define([Runtime_new EXCEPT !.function_table = table],
                                d.f, d.arg_count, d.body).rt.function_table

InitTables ==
    {EmptyTable,
     Defined(EmptyTable, Def_bar_two),
     Defined(EmptyTable, Def_bar_arg),
     Defined(Defined(EmptyTable, Def_foo_nested), Def_bar_arg)}

\* args_array as an earlier call left it
InitArgs == {<<>>, <<Data(u32(1))>>}

InitCallIf ==
    /\ \E n \in 0..MaxInitStack : value_stack \in [1..n -> InitWords]
    /\ function_table \in InitTables
    /\ instruction_stack = <<>>
    /\ args_array \in InitArgs
    /\ stdout = <<>>
    /\ pc = "idle"
    /\ ret = NoRet
    /\ frames = <<>>
    /\ tags = <<>>
    /\ argsOwner = 0
    /\ runInv = 0
    /\ last = NoStep
    /\ InitParser

RunCallIf == Run(CallIf)

NextCallIf ==
    \/ RunCallIf /\ UNCHANGED pvars
    \/ RunLoop /\ UNCHANGED pvars

SpecCallIf == InitCallIf /\ [][NextCallIf]_vars

(***************************************************************************)
(* The Lexer alone: a Reader holding lines of text, and a caller of        *)
(* next_token(0) until end of input.                                       *)
(***************************************************************************)
\* the decimal numeral of a u32
RECURSIVE Decimal(_)
Decimal(a) ==
    LET r == (a.hi % 10) * Half + a.lo
        q == [hi |-> a.hi \div 10, lo |-> r \div 10]
    IN  IF q = u32(0)
        THEN <<AsciiDigits[(r % 10) + 1]>>
        ELSE Append(Decimal(q), AsciiDigits[(r % 10) + 1])

\* "PUSH " followed by a numeral
PushLine(numeral) == Str_PUSH \o <<" ">> \o numeral

\* the u32 values lexed as literals: around 0, 2^16, 2^31 and 2^32 - 1
WordSamples ==
    {[hi |-> h, lo |-> l] : h \in {0, 1, 6553, 32767, 32768, 65535},
                            l \in {0, 1, 9, 10, 38527, 65534, 65535}}

\* digit runs around 2^32 and beyond
LongNumerals ==
    {<<"4", "2", "9", "4", "9", "6", "7", "2", "9", "6">>,
     <<"4", "2", "9", "4", "9", "6", "7", "3", "0", "0">>,
     <<"4", "3", "0", "0", "0", "0", "0", "0", "0", "0">>,
     <<"9", "9", "9", "9", "9", "9", "9", "9", "9", "9">>,
     <<"4", "2", "9", "4", "9", "6", "7", "2", "9", "5", "0">>,
     <<"1", "0", "0", "0", "0", "0", "0", "0", "0", "0", "0", "0">>}

\* longest line made of the characters of LexChars
MaxLine == 3
LexChars == {"a", "Z", "_", "1", " ", "*", "-", "/", "$", "+"}
ShortLines == UNION {[1..n -> LexChars] : n \in 0..MaxLine}

\* lines that start with a keyword, extended or not
Keywords == {Str_PUSH, Str_DEFN, Str_CALLIF, Str_EXIT}
KeywordSuffixes ==
    {<<>>, <<"1">>, <<"1", "2", "3">>, <<"x">>, <<"_">>, <<"S">>}
KeywordTails == {<<>>, <<" ", "1">>, <<"(">>, <<"/", "/", " ", "c">>}
KeywordLines ==
    {kw \o suffix \o tail :
        kw \in Keywords, suffix \in KeywordSuffixes, tail \in KeywordTails}

LexLines ==
    ShortLines
        \cup KeywordLines
        \cup {PushLine(Decimal(d)) : d \in WordSamples}
        \cup {PushLine(numeral) : numeral \in LongNumerals}

InitLexer ==
    /\ value_stack = Runtime_new.value_stack
    /\ function_table = Runtime_new.function_table
    /\ instruction_stack = Runtime_new.instruction_stack
    /\ args_array = Runtime_new.args_array
    /\ stdout = Runtime_new.stdout
    /\ pc = "idle"
    /\ ret = NoRet
    /\ frames = <<>>
    /\ tags = <<>>
    /\ argsOwner = 0
    /\ runInv = 0
    /\ last = NoStep
    /\ tokens = <<>>
    /\ reader \in {<<line>> : line \in LexLines}
    /\ depth = 0
    /\ requests = <<>>
    /\ parsed = <<>>
    /\ host = "run_interactive"

\* the Lexer held in the variables
LX == [tokens |-> tokens, reader |-> reader]

\* the thread has panicked
Panicked(results) ==
    /\ results # <<>>
    /\ ~Last(results).ok
    /\ "panic" \in DOMAIN Last(results).err

\* the end of input has been reported
AtEnd(results) == results # <<>> /\ Last(results) = Ok(None)

\* A call of next_token(0).
NextToken ==
    /\ ~Panicked(parsed)
    /\ ~AtEnd(parsed)
    /\ \E r \in {next_token(LX, 0)} :
          /\ tokens' = r.lx.tokens
          /\ reader' = r.lx.reader
          /\ parsed' = Append(parsed, r.res)
    /\ UNCHANGED <<depth, requests, host>>
    /\ UNCHANGED rvars

NextLexer == NextToken

SpecLexer == InitLexer /\ [][NextLexer]_vars

(***************************************************************************)
(* The Parser alone: a caller of next_instruction until end of input, on a *)
(* Lexer whose queue holds the tokens left of the current line and whose   *)
(* Reader holds the lines that follow.                                     *)
(***************************************************************************)
Str___x == <<"_", "_", "x">>

\* a token of every kind, and a reserved name
TokenAlphabet ==
    {Token_Push, Token_Defn, Token_CallIf, Token_Exit, Token_Asterisk,
     Token_LeftCurlyBracket, Token_RightCurlyBracket, Token_LeftParen,
     Token_RightParen, Token_FunctionName(Str_foo), Token_FunctionName(Str___x),
     Token_Word(u32(1)), Token_Argument(0)}

\* longest sequence made of any tokens
MaxTokens == 3
ShortTokens == UNION {[1..n -> TokenAlphabet] : n \in 0..MaxTokens}

\* DEFN foo ( 1 ) { PUSH $0 CALLIF } EXIT
Program_defn_exit ==
    <<Token_Defn, Token_FunctionName(Str_foo), Token_LeftParen, Token_Word(u32(1)),
      Token_RightParen, Token_LeftCurlyBracket, Token_Push, Token_Argument(0),
      Token_CallIf, Token_RightCurlyBracket, Token_Exit>>
\* PUSH * DEFN foo ( 1 ) { PUSH 1 PUSH foo EXIT } PUSH foo
Program_push_defn ==
    <<Token_Push, Token_Asterisk, Token_Defn, Token_FunctionName(Str_foo),
      Token_LeftParen, Token_Word(u32(1)), Token_RightParen,
      Token_LeftCurlyBracket, Token_Push, Token_Word(u32(1)), Token_Push,
      Token_FunctionName(Str_foo), Token_Exit, Token_RightCurlyBracket,
      Token_Push, Token_FunctionName(Str_foo)>>

\* a program with one token replaced, one token removed, or its end cut off
Variants(program) ==
    {[program EXCEPT ![k] = t] : k \in 1..Len(program), t \in TokenAlphabet}
        \cup {SubSeq(program, 1, k - 1) \o SubSeq(program, k + 1, Len(program)) :
                k \in 1..Len(program)}
        \cup {SubSeq(program, 1, k) : k \in 0..Len(program)}

ParserInputs ==
    ShortTokens \cup Variants(Program_defn_exit) \cup Variants(Program_push_defn)

\* the lines after the current one: none, one that closes a body and goes
\* on, one that has a character no token starts with
FollowingLines ==
    {<<>>,
     << <<"}", " ", "E", "X", "I", "T">> >>,
     << <<"1", " ", "-">>, <<"E", "X", "I", "T">> >>}

InitTokens ==
    /\ value_stack = Runtime_new.value_stack
    /\ function_table = Runtime_new.function_table
    /\ instruction_stack = Runtime_new.instruction_stack
    /\ args_array = Runtime_new.args_array
    /\ stdout = Runtime_new.stdout
    /\ pc = "idle"
    /\ ret = NoRet
    /\ frames = <<>>
    /\ tags = <<>>
    /\ argsOwner = 0
    /\ runInv = 0
    /\ last = NoStep
    /\ tokens \in ParserInputs
    /\ reader \in FollowingLines
    /\ depth = 0
    /\ requests = <<>>
    /\ parsed = <<>>
    /\ host = "run_interactive"

\* the Parser held in the variables
PR == [token_stream |-> LX, depth |-> depth, requests |-> requests]

SetParser(p) ==
    /\ tokens' = p.token_stream.tokens
    /\ reader' = p.token_stream.reader
    /\ depth' = p.depth
    /\ requests' = p.requests
    /\ host' = host

\* A call of next_instruction.
NextInstruction ==
    /\ ~AtEnd(parsed)
    /\ \E r \in {next_instruction(PR)} :
          /\ SetParser(r.p)
          /\ parsed' = Append(parsed, r.res)
    /\ UNCHANGED rvars

NextParser == NextInstruction

SpecParser == InitTokens /\ [][NextParser]_vars

(***************************************************************************)
(* The driver of src/main.rs (run_interactive): it fetches an instruction  *)
(* from the Parser and gives it to run, until the end of input or an EXIT; *)
(* after an error of the Parser it clears the line and goes on.  The       *)
(* Reader gives the lines of a program.                                    *)
(***************************************************************************)
\* the words of a line, separated by one space
RECURSIVE Line(_)
Line(words) ==
    IF words = <<>> THEN <<>>
    ELSE IF Len(words) = 1 THEN words[1]
    ELSE words[1] \o <<" ">> \o Line(Skip(words, 1))

\* the spelling of a token of every kind
Spellings ==
    {Str_PUSH, Str_DEFN, Str_CALLIF, Str_EXIT, Str_foo, Str___x, <<"*">>,
     <<"(">>, <<")">>, <<"{">>, <<"}">>, <<"1">>, <<"$", "0">>}

\* DEFN of a reserved name, alone and before a token of every kind
ReservedLines ==
    {Line(<<Str_DEFN, Str___x>>)}
        \cup {Line(<<Str_DEFN, Str___x, w>>) : w \in Spellings}

DriverLines ==
    ReservedLines \cup
    {Line(<<Str_DEFN, Str___x, <<"(">>, <<"0">>, <<")">>, <<"{">>, Str_EXIT, <<"}">>,
            Str_PUSH, <<"1">> >>),
     Line(<<Str_DEFN, Str_print, <<"(">>, <<"1">>, <<")">>, <<"{">> >>),
     Line(<<Str_DEFN, Str_foo, <<"(">>, <<"1">>, <<")">>, <<"{">>,
            Str_PUSH, <<"$", "0">>, <<"}">> >>),
     Line(<<Str_DEFN, Str_foo, <<"(">>, <<"0">>, <<")">>, <<"{">> >>),
     Line(<<Str_PUSH, <<"$", "0">>, <<"}">> >>),
     Line(<<Str_PUSH, <<"$", "0">>, Str_PUSH, <<"1">> >>),
     Line(<<Str_PUSH>>),
     Line(<<Str_PUSH, <<"1">>, Str_PUSH, <<"1">>, Str_PUSH, Str_foo, Str_CALLIF>>),
     Line(<<Str_PUSH, <<"1">>, Str_PUSH, Str___x, Str_CALLIF>>),
     Line(<<Str_PUSH, <<"1">>, Str_PUSH, Str_foo, Str_CALLIF>>),
     Line(<<Str_EXIT>>)}

\* most lines of a program
MaxProgram == 2
\* a session that defines foo over two lines, calls it and goes on
Session_call ==
    <<Line(<<Str_PUSH, <<"$", "0">>, Str_PUSH, <<"1">> >>),
      Line(<<Str_DEFN, Str_foo, <<"(">>, <<"1">>, <<")">>, <<"{">> >>),
      Line(<<Str_PUSH, <<"$", "0">>, <<"}">> >>),
      Line(<<Str_PUSH, <<"1">>, Str_PUSH, <<"1">>, Str_PUSH, Str_foo, Str_CALLIF>>),
      Line(<<Str_DEFN, Str___x, <<"(">>, <<"0">>, <<")">>, <<"{">>, Str_EXIT, <<"}">>,
             Str_PUSH, <<"1">> >>),
      Line(<<Str_EXIT>>)>>

\* a session with a runtime error and a syntax error in the middle of a line
Session_errors ==
    <<Line(<<Str_CALLIF, Str_PUSH, <<"1">>, Str_PUSH, <<"$", "0">>, Str_PUSH, <<"1">> >>),
      Line(<<Str_PUSH, <<"1">> >>)>>

DriverPrograms ==
    UNION {[1..n -> DriverLines] : n \in 0..MaxProgram}
        \cup {Session_call, Session_errors}

InitDriver ==
    /\ value_stack = Runtime_new.value_stack
    /\ function_table = Runtime_new.function_table
    /\ instruction_stack = Runtime_new.instruction_stack
    /\ args_array = Runtime_new.args_array
    /\ stdout = Runtime_new.stdout
    /\ pc = "idle"
    /\ ret = NoRet
    /\ frames = <<>>
    /\ tags = <<>>
    /\ argsOwner = 0
    /\ runInv = 0
    /\ last = NoStep
    /\ tokens = <<>>
    /\ reader \in DriverPrograms
    /\ depth = 0
    /\ requests = <<>>
    /\ parsed = <<>>
    /\ host = "run_interactive"

\* a loop that is left at the end of input only
Stopped_at_end_only == AtEnd(parsed)

\* the loop of run_interactive has been left
Stopped ==
    \/ AtEnd(parsed)
    \/ ret # NoRet /\ ret[1].ok /\ ret[1].val

\* Ok(Some(instruction)) => runtime.run(instruction)
FetchRun ==
    /\ pc = "idle"
    /\ ~Stopped
    /\ \E r \in {next_instruction(PR)} :
          /\ r.res.ok
          /\ r.res.val.some
          /\ SetParser(r.p)
          /\ parsed' = Append(parsed, r.res)
          /\ Run(r.res.val.x)

\* Err(e) => print_error(&e); the parser clears the line
FetchError ==
    /\ pc = "idle"
    /\ ~Stopped
    /\ \E r \in {next_instruction(PR)} :
          /\ ~r.res.ok
          /\ SetParser(clear_line(r.p))
          /\ parsed' = Append(parsed, r.res)
    /\ UNCHANGED rvars

\* Ok(None) => break
FetchEnd ==
    /\ pc = "idle"
    /\ ~Stopped
    /\ \E r \in {next_instruction(PR)} :
          /\ r.res = Ok(None)
          /\ SetParser(r.p)
          /\ parsed' = Append(parsed, r.res)
    /\ UNCHANGED rvars

NextDriver ==
    \/ FetchRun
    \/ FetchError
    \/ FetchEnd
    \/ RunLoop /\ UNCHANGED pvars

SpecDriver == InitDriver /\ [][NextDriver]_vars

(***************************************************************************)
(* The two hosts of src/main.rs.  main calls run_interactive when no file  *)
(* is given and run_from_files otherwise; both loop over next_instruction  *)
(* and run, and run_from_files returns at the first error.                 *)
(***************************************************************************)
Hosts == {"run_interactive", "run_from_files"}

InitHosts ==
    /\ value_stack = Runtime_new.value_stack
    /\ function_table = Runtime_new.function_table
    /\ instruction_stack = Runtime_new.instruction_stack
    /\ args_array = Runtime_new.args_array
    /\ stdout = Runtime_new.stdout
    /\ pc = "idle"
    /\ ret = NoRet
    /\ frames = <<>>
    /\ tags = <<>>
    /\ argsOwner = 0
    /\ runInv = 0
    /\ last = NoStep
    /\ tokens = <<>>
    /\ reader \in DriverPrograms
    /\ depth = 0
    /\ requests = <<>>
    /\ parsed = <<>>
    /\ host \in Hosts

\* a run_from_files that goes on after an error
FilesStopped_not_on_error == AtEnd(parsed) \/ (ret # NoRet /\ ret[1].ok /\ ret[1].val)

\* run_from_files has left its loop, by break or by return
FilesStopped ==
    \/ AtEnd(parsed)
    \/ parsed # <<>> /\ ~Last(parsed).ok
    \/ ret # NoRet /\ (~ret[1].ok \/ ret[1].val)

\* Ok(Some(x)) => x, then runtime.run(instruction)
FilesFetchRun ==
    /\ host = "run_from_files"
    /\ pc = "idle"
    /\ ~FilesStopped
    /\ \E r \in {next_instruction(PR)} :
          /\ r.res.ok
          /\ r.res.val.some
          /\ SetParser(r.p)
          /\ parsed' = Append(parsed, r.res)
          /\ Run(r.res.val.x)

\* Err(e) => { print_error(&e); return; }
FilesFetchError ==
    /\ host = "run_from_files"
    /\ pc = "idle"
    /\ ~FilesStopped
    /\ \E r \in {next_instruction(PR)} :
          /\ ~r.res.ok
          /\ SetParser(r.p)
          /\ parsed' = Append(parsed, r.res)
    /\ UNCHANGED rvars

\* Ok(None) => break
FilesFetchEnd ==
    /\ host = "run_from_files"
    /\ pc = "idle"
    /\ ~FilesStopped
    /\ \E r \in {next_instruction(PR)} :
          /\ r.res = Ok(None)
          /\ SetParser(r.p)
          /\ parsed' = Append(parsed, r.res)
    /\ UNCHANGED rvars

\* a step of the loop of run_interactive
Interactive ==
    /\ host = "run_interactive"
    /\ \/ FetchRun
       \/ FetchError
       \/ FetchEnd

\* a step of the loop of run_from_files
FromFiles ==
    \/ FilesFetchRun
    \/ FilesFetchError
    \/ FilesFetchEnd

NextHosts ==
    \/ Interactive
    \/ FromFiles
    \/ RunLoop /\ UNCHANGED pvars

SpecHosts == InitHosts /\ [][NextHosts]_vars

(***************************************************************************)
(* Mutual recursion: foo calls bar calls foo.  A call of run(CallIf) on a  *)
(* Runtime whose table holds the two functions, on every small stack; each *)
(* call consumes the datum under the function word, so the depth of the    *)
(* recursion is the number of non-zero data the stack holds.               *)
(***************************************************************************)
Def_foo_calls_bar == Define(Str_foo, u32(0), <<PushFunction(Str_bar), CallIf>>)
Def_bar_calls_foo == Define(Str_bar, u32(0), <<PushFunction(Str_foo), CallIf>>)
\* foo with an instruction left to execute after bar returns
Def_foo_calls_bar_then ==
    Define(Str_foo, u32(0), <<PushFunction(Str_bar), CallIf, PushData(u32(0))>>)
\* bar taking the datum that decides its call of foo as its argument
Def_bar_arg_calls_foo ==
    Define(Str_bar, u32(1), <<PushArg(0), PushFunction(Str_foo), CallIf>>)

RecursionTables ==
    {Defined(Defined(EmptyTable, Def_foo_calls_bar), Def_bar_calls_foo),
     Defined(Defined(EmptyTable, Def_foo_calls_bar_then), Def_bar_calls_foo),
     Defined(Defined(EmptyTable, Def_foo_calls_bar_then), Def_bar_arg_calls_foo)}

RecursionWords ==
    {Data(u32(0)), Data(u32(1)), Function(Str_foo), Function(Str_bar)}

InitRecursion ==
    /\ \E n \in 0..MaxInitStack : value_stack \in [1..n -> RecursionWords]
    /\ function_table \in RecursionTables
    /\ instruction_stack = <<>>
    /\ args_array = <<>>
    /\ stdout = <<>>
    /\ pc = "idle"
    /\ ret = NoRet
    /\ frames = <<>>
    /\ tags = <<>>
    /\ argsOwner = 0
    /\ runInv = 0
    /\ last = NoStep
    /\ InitParser

NextRecursion ==
    \/ RunCallIf /\ UNCHANGED pvars
    \/ RunLoop /\ UNCHANGED pvars

SpecRecursion == InitRecursion /\ [][NextRecursion]_vars

(***************************************************************************)
(* The executor that nests: it executes the instructions of a list one     *)
(* after the other and executes the body of a function inside the CallIf   *)
(* that calls it, by recursion, using no instruction_stack.  It is what    *)
(* run is compared with; the programs it is given have no EXIT and call no *)
(* built-in function.                                                      *)
(***************************************************************************)
RECURSIVE Nested(_, _)

\* CallIf: the words popped and the arguments bound as run_callif,
\* call_function and call_custom_function do, then the body at once
NestedCallIf(rt) ==
    Bound({
        IF ~f.res.ok
        THEN Out(f.rt, f.res)
        ELSE Bound({
                IF ~top_data.res.ok
                THEN Out(top_data.rt, top_data.res)
                ELSE IF top_data.res.val = u32(0)
                THEN Out(top_data.rt, Ok(FALSE))
                ELSE IF f.res.val \notin DOMAIN rt.function_table
                THEN Out(clear_args(top_data.rt), Err(ERR_UNDEFINED))
                ELSE Bound({
                        IF ~popped.res.ok
                        THEN popped
                        ELSE Nested(popped.rt, rt.function_table[f.res.val][2]) :
                        popped \in {pop_args(clear_args(top_data.rt),
                                             ToInt(rt.function_table[f.res.val][1]))}}) :
                top_data \in {pop_data_from_stack(f.rt)}}) :
        f \in {pop_function_from_stack(rt)}})

Nested(rt, body) ==
    IF body = <<>>
    THEN Out(rt, Ok(FALSE))
    ELSE Bound({
            IF ~one.res.ok THEN one ELSE Nested(one.rt, Skip(body, 1)) :
            one \in {IF body[1].op = "CallIf"
                     THEN NestedCallIf(rt)
                     ELSE run_instruction(rt, body[1], DefaultEnv)}})

\* what a run has done when it has returned: the value returned and the
\* Runtime but for instruction_stack
Done(out) == [res |-> out.res, value_stack |-> out.rt.value_stack,
              args_array |-> out.rt.args_array,
              function_table |-> out.rt.function_table]

\* what the nested executor makes of the instructions still pending, the
\* top of instruction_stack first; once run has returned, what it returned
Outcome ==
    IF pc = "loop"
    THEN Done(Nested(RT, Reverse(instruction_stack)))
    ELSE Done(Out(RT, ret[1]))

(***************************************************************************)
(* The Lexer over a source of several lines: a caller of next_token(0) who *)
(* may call clear between two calls.  A call of clear is recorded in       *)
(* parsed by the entry Cleared.                                            *)
(***************************************************************************)
SourceLines ==
    {<<>>,
     Line(<<Str_PUSH, <<"1">>, Str_PUSH, Str_foo>>),
     Line(<<Str_EXIT>>),
     Line(<<<<"%">>, Str_PUSH, <<"1">> >>),
     Line(<<Str_PUSH, <<"1">>, <<"-">>, Str_EXIT>>),
     Line(<<Str_CALLIF, <<"#">> >>),
     Line(<<Str_DEFN, <<"/", "/">>, <<"-">>, Str_EXIT>>),
     Line(<<<<"/", "/">>, <<"%">> >>)}

\* most lines of a source
MaxSource == 3
Sources == UNION {[1..n -> SourceLines] : n \in 0..MaxSource}

InitLines ==
    /\ value_stack = Runtime_new.value_stack
    /\ function_table = Runtime_new.function_table
    /\ instruction_stack = Runtime_new.instruction_stack
    /\ args_array = Runtime_new.args_array
    /\ stdout = Runtime_new.stdout
    /\ pc = "idle"
    /\ ret = NoRet
    /\ frames = <<>>
    /\ tags = <<>>
    /\ argsOwner = 0
    /\ runInv = 0
    /\ last = NoStep
    /\ tokens = <<>>
    /\ reader \in Sources
    /\ depth = 0
    /\ requests = <<>>
    /\ parsed = <<>>
    /\ host = "run_interactive"

\* what parsed records for a call of clear
Cleared == [ok |-> TRUE, cleared |-> TRUE]

\* A call of clear(), after a call of next_token that did not end the input.
Clear ==
    /\ parsed # <<>>
    /\ Last(parsed) # Cleared
    /\ ~AtEnd(parsed)
    /\ \E lx \in {clear(LX)} :
          /\ tokens' = lx.tokens
          /\ reader' = lx.reader
    /\ parsed' = Append(parsed, Cleared)
    /\ UNCHANGED <<depth, requests, host>>
    /\ UNCHANGED rvars

NextLines ==
    \/ NextToken
    \/ Clear

SpecLines == InitLines /\ [][NextLines]_vars

(***************************************************************************)
(* The built-in functions: a call of run(CallIf) on a value_stack that     *)
(* holds, from the top, a function word, the datum that decides the call,  *)
(* the operands, and possibly a word below them.                           *)
(***************************************************************************)
\* the names called: the five built-ins, a reserved name that is none of
\* them, and the names of two user functions
BuiltinNames ==
    {Str_print, Str_input, Str_nand, Str_shift_left, Str_shift_right}
CalledNames == BuiltinNames \cup {Str___x, Str_foo, Str_bar}

\* the names pushed
PushedNames == {Str___x, Str_foo, Str_bar}

\* data of one and of two halves, with the top bit set and with all bits set,
\* a surrogate (0xD800), the last code point (0x10FFFF) and the first number
\* beyond it
OperandData ==
    {[hi |-> 0, lo |-> 0], [hi |-> 0, lo |-> 10], [hi |-> 0, lo |-> 12],
     [hi |-> 0, lo |-> 55296], [hi |-> 16, lo |-> 65535],
     [hi |-> 17, lo |-> 0], [hi |-> 32768, lo |-> 5], [hi |-> 65535, lo |-> 65535]}
OperandWords == {Data(n) : n \in OperandData} \cup {Function(Str_foo)}

\* most operands on the stack
MaxOperands == 2
OperandStacks == UNION {[1..n -> OperandWords] : n \in 0..MaxOperands}

\* what lies below the operands
BelowOperands == {<<>>, <<Data(u32(0))>>, <<Data(u32(7))>>, <<Function(Str_bar)>>}

\* function_table holds bar and an entry under a reserved name (which no
\* DEFN can make, but which is never looked up), and not foo
BuiltinTable ==
    Defined(Defined(EmptyTable, Define(Str_bar, u32(0), <<PushData(u32(2))>>)),
            Define(Str___x, u32(0), <<PushData(u32(1))>>))

InitBuiltin ==
    /\ \E below \in BelowOperands, operands \in OperandStacks,
          n \in {u32(0), u32(1)}, f \in CalledNames :
          value_stack = below \o operands \o <<Data(n), Function(f)>>
    /\ function_table = BuiltinTable
    /\ instruction_stack = <<>>
    /\ args_array = <<>>
    /\ stdout = <<>>
    /\ pc = "idle"
    /\ ret = NoRet
    /\ frames = <<>>
    /\ tags = <<>>
    /\ argsOwner = 0
    /\ runInv = 0
    /\ last = NoStep
    /\ InitParser

\* run(PushFunction(f))
RunPushFunction == \E f \in PushedNames : Run(PushFunction(f))

NextBuiltin ==
    \/ RunCallIf /\ UNCHANGED pvars
    \/ RunPushFunction /\ UNCHANGED pvars
    \/ RunLoop /\ UNCHANGED pvars

SpecBuiltin == InitBuiltin /\ [][NextBuiltin]_vars

(***************************************************************************)
(* A function that pushes its argument, makes a nested call and pushes its *)
(* argument again (tests::undefined_arg_after_nested_custom_function,      *)
(* tests::undefined_arg_after_nested_builtin_function).  The function      *)
(* called takes no argument: it is empty, or built in, or calls in turn a  *)
(* function that takes one.                                                *)
(***************************************************************************)
Str_bad == <<"b", "a", "d">>
Str_empty == <<"e", "m", "p", "t", "y">>

Def_bad_calls(f) ==
    Define(Str_bad, u32(1),
           <<PushArg(0), PushData(u32(1)), PushFunction(f), CallIf, PushArg(0)>>)
Def_empty == Define(Str_empty, u32(0), <<>>)
\* DEFN empty (0) { PUSH 1 PUSH bar CALLIF }
Def_empty_calls_bar ==
    Define(Str_empty, u32(0), <<PushData(u32(1)), PushFunction(Str_bar), CallIf>>)
\* DEFN bar (1) { }
Def_bar_one == Define(Str_bar, u32(1), <<>>)

NestedTables ==
    {Defined(Defined(EmptyTable, Def_bad_calls(Str_empty)), Def_empty),
     Defined(EmptyTable, Def_bad_calls(Str_shift_left)),
     Defined(Defined(Defined(EmptyTable, Def_bad_calls(Str_empty)),
                     Def_empty_calls_bar),
             Def_bar_one)}

NestedWords ==
    {Data(u32(0)), Data(u32(1)), Data(u32(3)), Function(Str_bad),
     Function(Str_empty)}

InitNested ==
    /\ \E n \in 0..MaxStack : value_stack \in [1..n -> NestedWords]
    /\ function_table \in NestedTables
    /\ instruction_stack = <<>>
    /\ args_array = <<>>
    /\ stdout = <<>>
    /\ pc = "idle"
    /\ ret = NoRet
    /\ frames = <<>>
    /\ tags = <<>>
    /\ argsOwner = 0
    /\ runInv = 0
    /\ last = NoStep
    /\ InitParser

NextNested ==
    \/ RunCallIf /\ UNCHANGED pvars
    \/ RunLoop /\ UNCHANGED pvars

SpecNested == InitNested /\ [][NextNested]_vars

(***************************************************************************)
(* What the properties read.                                               *)
(***************************************************************************)
\* run has returned an error
Failed(r) == r # NoRet /\ ~r[1].ok

\* The instructions pending below the one a step executes: a step taken
\* from "idle" pushes its instruction first, a step of the loop pops it.
Pending == IF pc = "idle" THEN instruction_stack ELSE Front(instruction_stack)

IsPrefix(s, t) == Len(s) <= Len(t) /\ SubSeq(t, 1, Len(s)) = s

\* This step executes a CallIf that invokes a user function.
InvokesUser == last'.ins.op = "CallIf" /\ CallsUser(value_stack, function_table)

\* The arity of the user function the CallIf of this step invokes.
InvokedArity == ToInt(function_table[Last(value_stack).f][1])

(***************************************************************************)
(* C1.  Whenever CallIf invokes a user function of arity k, after any      *)
(* sequence of run calls, the body starts with args_array of length        *)
(* exactly k, holding only words popped for this call; and a PushArg(i)    *)
(* with i >= k executed in that body while the binding is still the one    *)
(* this call made (no call has been made since) fails with the undefined   *)
(* error.                                                                  *)
(***************************************************************************)
C1_ArgsAreThisCalls ==
    [][ /\ InvokesUser =>
              /\ Len(args_array') = InvokedArity
              /\ \A j \in 1..Len(args_array') :
                    \E m \in (Len(value_stack) - 1 - InvokedArity)
                                 ..(Len(value_stack) - 2) :
                        args_array'[j] = value_stack[m]
        /\ ( /\ last'.ins.op = "PushArg"
             /\ frames'[last'.inv].user
             /\ argsOwner = last'.inv
             /\ last'.ins.i >= frames'[last'.inv].arity )
           => ret' = <<Err(ERR_UNDEFINED)>>
      ]_vars

\* A call was made while args_array still held the binding of an earlier
\* call, and a PushArg beyond the arity has just failed in its body.
C1_Witness ==
    /\ ret = <<Err(ERR_UNDEFINED)>>
    /\ last.ins.op = "PushArg"
    /\ last.inv = argsOwner
    /\ frames[last.inv].user
    /\ frames[last.inv].before # <<>>
    /\ Len(args_array) = frames[last.inv].arity
    /\ last.ins.i >= frames[last.inv].arity

(***************************************************************************)
(* C2.  Whenever PushArg(i) succeeds while the body of a user function is  *)
(* executing, the word pushed is the i-th argument bound by that           *)
(* invocation, never a word bound by another call.                         *)
(***************************************************************************)
C2_PushArgReadsOwnBinding ==
    [][ ( /\ last'.ins.op = "PushArg"
          /\ frames'[last'.inv].user
          /\ ~Failed(ret') )
        => /\ last'.ins.i < Len(frames'[last'.inv].args)
           /\ value_stack' =
                 Append(value_stack, frames'[last'.inv].args[last'.ins.i + 1])
      ]_vars

(***************************************************************************)
(* C3.  Calling a user function of arity k binds its arguments in pop      *)
(* order: args_array[j] is the word j positions below the top of           *)
(* value_stack once the function and datum words are removed, and exactly  *)
(* those k words (with the function and the datum) leave value_stack.      *)
(***************************************************************************)
C3_BindsInPopOrder ==
    [][ InvokesUser =>
            /\ Len(args_array') = InvokedArity
            /\ \A j \in 0..(InvokedArity - 1) :
                  args_array'[j + 1] = value_stack[Len(value_stack) - 2 - j]
            /\ value_stack' =
                  SubSeq(value_stack, 1, Len(value_stack) - 2 - InvokedArity)
      ]_vars

\* Data(1) then Data(2) were pushed and a function of arity 2 was called.
C3_Witness ==
    /\ last.ins.op = "CallIf"
    /\ argsOwner = Len(frames)
    /\ argsOwner > 0
    /\ frames[argsOwner].arity = 2
    /\ args_array = <<Data(u32(2)), Data(u32(1))>>

(***************************************************************************)
(* C4.  CallIf with a Function word on top and Data(0) directly below      *)
(* removes exactly those two words and performs no call: function_table,   *)
(* args_array, the rest of value_stack and the pending instructions are    *)
(* unchanged, nothing is scheduled, and run does not fail, also when the   *)
(* named function is undefined.                                            *)
(***************************************************************************)
C4_ZeroDatumNoCall ==
    [][ ( /\ last'.ins.op = "CallIf"
          /\ Len(value_stack) >= 2
          /\ value_stack[Len(value_stack)].tag = "Function"
          /\ value_stack[Len(value_stack) - 1] = Data(u32(0)) )
        => /\ value_stack' = SubSeq(value_stack, 1, Len(value_stack) - 2)
           /\ function_table' = function_table
           /\ args_array' = args_array
           /\ instruction_stack' = Pending
           /\ ret' = IF Pending = <<>> THEN <<Ok(FALSE)>> ELSE NoRet
      ]_vars

\* A CallIf found an undefined function over Data(0), with words below and
\* a binding in args_array, and run returned Ok(false).
C4_Witness ==
    /\ last.ins.op = "CallIf"
    /\ Len(last.ops) = 2
    /\ last.ops[1] = Data(u32(0))
    /\ last.ops[2].tag = "Function"
    /\ last.ops[2].f \notin DOMAIN function_table
    /\ ret = <<Ok(FALSE)>>
    /\ value_stack # <<>>
    /\ args_array # <<>>

(***************************************************************************)
(* C5.  On a value_stack of at least two words, CallIf fails with the type *)
(* error when the top word is Data, and when the top word is a Function    *)
(* and the word below it is a Function; no word is coerced, so nothing is  *)
(* called: args_array and function_table are as before.                    *)
(***************************************************************************)
C5_TypeErrors ==
    [][ ( /\ last'.ins.op = "CallIf"
          /\ Len(value_stack) >= 2
          /\ \/ value_stack[Len(value_stack)].tag = "Data"
             \/ /\ value_stack[Len(value_stack)].tag = "Function"
                /\ value_stack[Len(value_stack) - 1].tag = "Function" )
        => /\ ret' = <<Err(ERR_TYPE)>>
           /\ args_array' = args_array
           /\ function_table' = function_table
           /\ instruction_stack' = <<>>
      ]_vars

\* A CallIf found a Function word under a Function word and failed with the
\* type error.
C5_Witness ==
    /\ last.ins.op = "CallIf"
    /\ Len(last.ops) = 2
    /\ last.ops[1].tag = "Function"
    /\ last.ops[2].tag = "Function"
    /\ ret = <<Err(ERR_TYPE)>>

(***************************************************************************)
(* C6.  On every value_stack of fewer than two words (empty, one Function  *)
(* word, one Data word) CallIf fails with the stack-underflow error.       *)
(***************************************************************************)
C6_UnderflowBelowTwo ==
    [][ (last'.ins.op = "CallIf" /\ Len(value_stack) < 2)
        => ret' = <<Err(ERR_UNDERFLOW)>>
      ]_vars

(***************************************************************************)
(* C7.  When an instruction executed during run fails, run returns the     *)
(* error with instruction_stack emptied; value_stack is what it was before *)
(* the failing instruction less the words that instruction popped, and     *)
(* function_table is unchanged.                                            *)
(***************************************************************************)
C7_ErrorClearsInstructions ==
    [][ Failed(ret')
        => /\ pc' = "idle"
           /\ instruction_stack' = <<>>
           /\ IsPrefix(value_stack', value_stack)
           /\ function_table' = function_table
      ]_vars

\* run failed inside a called body: an invocation is left unfinished, and
\* value_stack holds what the body pushed before the failure.
C7_Witness ==
    /\ Failed(ret)
    /\ instruction_stack = <<>>
    /\ frames[last.inv].user
    /\ \E v \in 1..Len(frames) :
          /\ frames[v].user
          /\ v < last.inv
          /\ frames[v].done < Len(frames[v].body)
    /\ value_stack # <<>>
    /\ function_table # EmptyTable

(***************************************************************************)
(* C8.  When run executes Exit, at top level or inside a called body, it   *)
(* returns Ok(true) at once: value_stack, function_table and args_array    *)
(* are as the instructions before the Exit left them, and the instructions *)
(* pending below the Exit stay on instruction_stack, unchanged and in      *)
(* order.                                                                  *)
(***************************************************************************)
C8_ExitLeavesPending ==
    [][ last'.ins.op = "Exit"
        => /\ pc' = "idle"
           /\ ret' = <<Ok(TRUE)>>
           /\ value_stack' = value_stack
           /\ function_table' = function_table
           /\ args_array' = args_array
           /\ instruction_stack' = Pending
      ]_vars

\* run returned at an Exit inside a called body, with instructions pending
\* and a value pushed by the body before the Exit.
C8_Witness ==
    /\ last.ins.op = "Exit"
    /\ last.inv > 0
    /\ frames[last.inv].user
    /\ last.idx = 2
    /\ ret = <<Ok(TRUE)>>
    /\ instruction_stack # <<>>
    /\ value_stack # <<>>

(***************************************************************************)
(* C9.  The instructions pending at an Exit are never executed afterwards: *)
(* every instruction a call of run executes was scheduled by that call.    *)
(***************************************************************************)
C9_PendingNeverExecuted ==
    [][ last'.inv >= runInv' ]_vars

(***************************************************************************)
(* C9 as the code has it.  Exit ends the current call of run only: the     *)
(* pending instructions stay on instruction_stack (which is non-empty      *)
(* between calls only after an Exit), and the next call of run that        *)
(* neither fails nor exits at its own instruction goes on to execute them, *)
(* in the order their bodies give.                                         *)
(***************************************************************************)
C9_PendingRunLater ==
    [][ /\ (pc = "idle" /\ instruction_stack # <<>>)
            => /\ ret = <<Ok(TRUE)>>
               /\ last.ins.op = "Exit"
               /\ (~Failed(ret') /\ last'.ins.op # "Exit")
                     => /\ pc' = "loop"
                        /\ IsPrefix(instruction_stack, instruction_stack')
        /\ last'.inv < runInv'
            => /\ pc = "loop"
               /\ last'.ins = frames'[last'.inv].body[last'.idx]
               /\ last'.idx > 1
      ]_vars

\* A call of run has executed an instruction that was pending at the Exit
\* of an earlier call.
C9_Witness ==
    /\ last.inv < runInv
    /\ last.inv > 0
    /\ frames[last.inv].user
    /\ ~Failed(ret)

(***************************************************************************)
(* C10.  The instructions of a body are executed in the order of the body, *)
(* and when an instruction of an invocation is executed every invocation   *)
(* made after it (the nested calls, and theirs) has executed its whole     *)
(* body, the invocation this very instruction makes excepted.              *)
(***************************************************************************)
C10_TrampolineOrder ==
    [][ /\ last'.idx = frames'[last'.inv].done
        /\ last'.idx <= Len(frames'[last'.inv].body)
        /\ last'.ins = frames'[last'.inv].body[last'.idx]
        /\ \A w \in (last'.inv + 1)..Len(frames') :
              \/ frames'[w].done = Len(frames'[w].body)
              \/ /\ w = Len(frames')
                 /\ frames'[w].done = 0
                 /\ last'.ins.op = "CallIf"
      ]_vars

\* The caller's instruction after its CallIf is executed once the nested
\* invocation has executed its body.
C10_Witness ==
    /\ last.ins = PushArg(0)
    /\ last.idx = 5
    /\ frames[last.inv].f = Str_foo
    /\ Len(frames) > last.inv
    /\ frames[last.inv + 1].user
    /\ frames[last.inv + 1].f = Str_bar
    /\ frames[last.inv + 1].done = Len(frames[last.inv + 1].body)
    /\ frames[last.inv + 1].done > 0

(***************************************************************************)
(* C18.  For the decimal numeral of every d in [0, 2^32 - 1], lexing the   *)
(* line "PUSH d" yields exactly the tokens Push, Word(d) and then the end  *)
(* of input; a digit run whose value is 2^32 or more makes next_token fail *)
(* with the syntax error naming the digit run, and no token of the line is *)
(* delivered.                                                              *)
(***************************************************************************)
\* the numeral (without leading zeros) denotes 2^32 or more: it is longer
\* than "4294967295", or as long and after it in the order of numerals
ExceedsU32(numeral) ==
    LET max == <<"4", "2", "9", "4", "9", "6", "7", "2", "9", "5">>
    IN  \/ Len(numeral) > Len(max)
        \/ /\ Len(numeral) = Len(max)
           /\ \E k \in 1..Len(max) :
                 /\ SubSeq(numeral, 1, k - 1) = SubSeq(max, 1, k - 1)
                 /\ to_digit(numeral[k]) > to_digit(max[k])

C18_PushLiteral ==
    [][ /\ (tokens = <<>> /\ reader # <<>>)
            => /\ \A d \in WordSamples :
                     reader[1] = PushLine(Decimal(d))
                        => /\ ~ExceedsU32(Decimal(d))
                           /\ parsed' = Append(parsed, Ok(Some(Token_Push)))
                           /\ tokens' = <<Token_Word(d)>>
                           /\ reader' = <<>>
               /\ \A numeral \in LongNumerals :
                     reader[1] = PushLine(numeral)
                        => /\ ExceedsU32(numeral)
                           /\ parsed' = Append(parsed, Err(Invalid_word(numeral)))
                           /\ tokens' = <<>>
        /\ tokens # <<>>
            => /\ parsed' = Append(parsed, Ok(Some(tokens[1])))
               /\ tokens' = Skip(tokens, 1)
        /\ (tokens = <<>> /\ reader = <<>>)
            => parsed' = Append(parsed, Ok(None))
      ]_vars

\* "PUSH 4294967295" has been lexed to its end.
C18_Witness ==
    parsed = <<Ok(Some(Token_Push)),
               Ok(Some(Token_Word([hi |-> 65535, lo |-> 65535]))),
               Ok(None)>>

(***************************************************************************)
(* C19.  A keyword is recognised only as a whole maximal run of identifier *)
(* characters: on a line that starts with PUSH, DEFN, CALLIF or EXIT       *)
(* followed by more identifier characters the first token is the           *)
(* FunctionName of the whole run, and the tokens after it are those of the *)
(* text after the run; when the keyword is followed by the end of the line *)
(* or by another character, the first token is the keyword token.          *)
(***************************************************************************)
KeywordToken(kw) ==
    CASE kw = Str_PUSH -> Token_Push
      [] kw = Str_DEFN -> Token_Defn
      [] kw = Str_CALLIF -> Token_CallIf
      [] kw = Str_EXIT -> Token_Exit

\* the tokens of the texts of KeywordTails
TailTokens(tail) ==
    CASE tail = <<" ", "1">> -> <<Token_Word(u32(1))>>
      [] tail = <<"(">> -> <<Token_LeftParen>>
      [] OTHER -> <<>>

C19_KeywordsWholeRun ==
    [][ (tokens = <<>> /\ reader # <<>>)
        => \A kw \in Keywords, suffix \in KeywordSuffixes, tail \in KeywordTails :
              reader[1] = kw \o suffix \o tail
                 => /\ parsed' =
                          <<Ok(Some(IF suffix = <<>>
                                    THEN KeywordToken(kw)
                                    ELSE Token_FunctionName(kw \o suffix)))>>
                    /\ tokens' = TailTokens(tail)
      ]_vars

\* "PUSH123 1" gave the FunctionName PUSH123, and the Word 1 is next.
C19_Witness ==
    /\ parsed = <<Ok(Some(Token_FunctionName(Str_PUSH \o <<"1", "2", "3">>)))>>
    /\ tokens = <<Token_Word(u32(1))>>

(***************************************************************************)
(* C20.  The text of every FunctionName token the lexer emits matches      *)
(* [a-z_][a-z0-9_]*.                                                       *)
(***************************************************************************)
\* the results that are FunctionName tokens
NamesEmitted ==
    {parsed[k].val.x.f : k \in {j \in 1..Len(parsed) :
        /\ parsed[j].ok
        /\ parsed[j].val.some
        /\ parsed[j].val.x.t = "FunctionName"}}

C12_DepthZeroBetweenCalls == depth = 0

\* next_instruction failed at the operand of a PUSH inside a DEFN body,
\* which it had requested at depth 2.
C12_Witness ==
    /\ parsed # <<>>
    /\ ~Last(parsed).ok
    /\ requests # <<>>
    /\ Last(requests).depth = 2
    /\ Last(requests).place = "operand"
    /\ depth = 0

(***************************************************************************)
(* C13.  The first token of a top-level instruction is requested at depth  *)
(* 0, the operand of a top-level PUSH at depth 1, the name, the signature  *)
(* and the body tokens of a DEFN at depth 1, the operand of a PUSH inside  *)
(* a DEFN body at depth 2; no request carries a depth above 2.             *)
(***************************************************************************)
C13_DepthOfRequests ==
    \A k \in 1..Len(requests) :
        LET q == requests[k]
        IN  /\ q.depth <= 2
            /\ (q.place = "instruction" /\ ~q.inside_defn) => (q.depth = 0 /\ k = 1)
            /\ (q.place = "operand" /\ ~q.inside_defn) => q.depth = 1
            /\ q.place \in {"name", "signature"} => q.depth = 1
            /\ (q.place = "instruction" /\ q.inside_defn) => q.depth = 1
            /\ (q.place = "operand" /\ q.inside_defn) => q.depth = 2

\* A DEFN was returned whose body has a PUSH after another instruction: the
\* operand was requested at depth 2 and the closing brace at depth 1.
C13_Witness ==
    /\ parsed # <<>>
    /\ Last(parsed).ok
    /\ Last(parsed).val.some
    /\ Last(parsed).val.x.op = "Define"
    /\ \E k \in 1..Len(requests) :
          /\ requests[k].depth = 2
          /\ k > 8
    /\ Last(requests).depth = 1
    /\ Last(requests).got = Ok(Some(Token_RightCurlyBracket))

(***************************************************************************)
(* C15.  A DEFN token met where an instruction of a DEFN body is expected  *)
(* ends next_instruction with the error that nested definitions are not    *)
(* allowed; the body of every Define returned contains no Define.          *)
(***************************************************************************)
C15_NoNestedDefn ==
    /\ \A k \in 1..Len(requests) :
          ( /\ requests[k].place = "instruction"
            /\ requests[k].inside_defn
            /\ requests[k].got = Ok(Some(Token_Defn)) )
          => /\ k = Len(requests)
             /\ Last(parsed) = Err(Nested_definitions)
    /\ \A k \in 1..Len(parsed) :
          (parsed[k].ok /\ parsed[k].val.some /\ parsed[k].val.x.op = "Define")
          => \A j \in 1..Len(parsed[k].val.x.body) :
                parsed[k].val.x.body[j].op # "Define"

\* next_instruction met a DEFN after an instruction of a body and failed.
C15_Witness ==
    /\ parsed # <<>>
    /\ Last(parsed) = Err(Nested_definitions)
    /\ Len(requests) > 7
    /\ Last(requests).got = Ok(Some(Token_Defn))

(***************************************************************************)
(* The source grammar, as a recogniser of token sequences and the          *)
(* Instruction each sentence denotes.  with_args says whether "$" digits   *)
(* is an operand of PUSH, any_name whether DEFN takes every FunctionName.  *)
(***************************************************************************)
IsOperand(token, with_args) ==
    \/ token.t \in {"Word", "FunctionName", "Asterisk"}
    \/ with_args /\ token.t = "Argument"

DenotePush(token) ==
    CASE token.t = "Word" -> PushData(token.n)
      [] token.t = "FunctionName" -> PushFunction(token.f)
      [] token.t = "Asterisk" -> PushRandom
      [] token.t = "Argument" -> PushArg(token.i)

\* instruction* without DEFN, the body of a definition
RECURSIVE IsBody(_, _)
IsBody(ts, with_args) ==
    \/ ts = <<>>
    \/ /\ ts # <<>>
       /\ ts[1].t \in {"CallIf", "Exit"}
       /\ IsBody(Skip(ts, 1), with_args)
    \/ /\ Len(ts) >= 2
       /\ ts[1].t = "Push"
       /\ IsOperand(ts[2], with_args)
       /\ IsBody(Skip(ts, 2), with_args)

RECURSIVE DenoteBody(_)
DenoteBody(ts) ==
    IF ts = <<>> THEN <<>>
    ELSE IF ts[1].t = "CallIf" THEN <<CallIf>> \o DenoteBody(Skip(ts, 1))
    ELSE IF ts[1].t = "Exit" THEN <<Exit>> \o DenoteBody(Skip(ts, 1))
    ELSE <<DenotePush(ts[2])>> \o DenoteBody(Skip(ts, 2))

\* "DEFN" name "(" arity ")" "{" instruction* "}"
IsDefn(ts, with_args, any_name) ==
    /\ Len(ts) >= 7
    /\ ts[1].t = "Defn"
    /\ ts[2].t = "FunctionName"
    /\ any_name \/ ~starts_with(ts[2].f, <<"_", "_">>)
    /\ ts[3].t = "LeftParen"
    /\ ts[4].t = "Word"
    /\ ts[5].t = "RightParen"
    /\ ts[6].t = "LeftCurlyBracket"
    /\ Last(ts).t = "RightCurlyBracket"
    /\ IsBody(SubSeq(ts, 7, Len(ts) - 1), with_args)

\* one top-level instruction
IsInstr(ts, with_args, any_name) ==
    \/ Len(ts) = 1 /\ ts[1].t \in {"CallIf", "Exit"}
    \/ Len(ts) = 2 /\ ts[1].t = "Push" /\ IsOperand(ts[2], FALSE)
    \/ IsDefn(ts, with_args, any_name)

Denote(ts) ==
    CASE ts[1].t = "CallIf" -> CallIf
      [] ts[1].t = "Exit" -> Exit
      [] ts[1].t = "Push" -> DenotePush(ts[2])
      [] ts[1].t = "Defn" ->
            Define(ts[2].f, ts[4].n, DenoteBody(SubSeq(ts, 7, Len(ts) - 1)))

\* The tokens of the lines the Reader still holds, when every line lexes.
RECURSIVE LinesLex(_)
LinesLex(lines) ==
    lines = <<>> \/ (lex_line(lines[1]).ok /\ LinesLex(Skip(lines, 1)))

RECURSIVE LinesTokens(_)
LinesTokens(lines) ==
    IF lines = <<>> THEN <<>>
    ELSE lex_line(lines[1]).val \o LinesTokens(Skip(lines, 1))

\* The remaining tokens of the Lexer: its queue, then those of the lines.
Remaining(lx) == lx.tokens \o LinesTokens(lx.reader)

\* What a call of next_instruction does on the remaining tokens, for a
\* grammar given by with_args and any_name.
ParsesBy(with_args, any_name) ==
    LinesLex(reader) =>
        \E stream \in {Remaining(LX)} :
        \E result \in {Last(parsed')} :
        \E lengths \in {{n \in 1..Len(stream) :
                            IsInstr(Take(stream, n), with_args, any_name)}} :
            /\ Cardinality(lengths) <= 1
            /\ \A n \in lengths :
                  /\ result = Ok(Some(Denote(Take(stream, n))))
                  /\ tokens' \o LinesTokens(reader') = Skip(stream, n)
            /\ (lengths = {} /\ stream = <<>>) => result = Ok(None)
            /\ (lengths = {} /\ stream # <<>>) =>
                  (~result.ok /\ "msg" \in DOMAIN result.err)

(***************************************************************************)
(* C17 as stated: the grammar is PUSH followed by Word, FunctionName or    *)
(* Asterisk; DEFN FunctionName ( Word ) { body }; CALLIF; EXIT.            *)
(* next_instruction returns Ok(Some(i)) exactly when the remaining tokens  *)
(* start with one instruction of it, i is that instruction, exactly its    *)
(* tokens are consumed, and otherwise the call is a syntax error.          *)
(***************************************************************************)
C17_ParsesStatedGrammar == [][ParsesBy(FALSE, TRUE)]_vars

(***************************************************************************)
(* C17.  next_instruction returns Ok(Some(i)) exactly when the remaining   *)
(* tokens start with one instruction of the grammar in which the name of a *)
(* DEFN does not start with "__" and a PUSH inside a body may also take an *)
(* Argument; i is the corresponding Instruction with the body instructions *)
(* in source order, exactly the tokens of that instruction are consumed;   *)
(* with no token left the call returns Ok(None), and any other input is a  *)
(* syntax error.                                                           *)
(***************************************************************************)
C17_ParsesGrammar == [][ParsesBy(TRUE, FALSE)]_vars

\* A DEFN with two PUSH in its body was returned after another instruction,
\* and tokens of a further instruction are left.
C17_Witness ==
    /\ Len(parsed) = 2
    /\ Last(parsed).ok
    /\ Last(parsed).val.some
    /\ Last(parsed).val.x.op = "Define"
    /\ Len(Last(parsed).val.x.body) = 3
    /\ Last(parsed).val.x.body[2] = PushFunction(Str_foo)
    /\ Len(tokens) = 2

(***************************************************************************)
(* C14.  A DEFN whose function name starts with "__" fails with the        *)
(* reserved-prefix syntax error as soon as the name is read, whatever      *)
(* follows it; no Define returned by next_instruction has such a name, and *)
(* in a session driven through the parser function_table never holds a key *)
(* starting with "__".                                                     *)
(***************************************************************************)
C14_ReservedNamesRejected ==
    /\ \A k \in 1..Len(requests) :
          ( /\ requests[k].place = "name"
            /\ requests[k].got.ok
            /\ requests[k].got.val.some
            /\ requests[k].got.val.x.t = "FunctionName"
            /\ starts_with(requests[k].got.val.x.f, <<"_", "_">>) )
          => /\ k = Len(requests)
             /\ parsed # <<>>
             /\ Last(parsed) = Err(Reserved_prefix(requests[k].got.val.x.f))
    /\ \A k \in 1..Len(parsed) :
          (parsed[k].ok /\ parsed[k].val.some /\ parsed[k].val.x.op = "Define")
          => ~starts_with(parsed[k].val.x.f, <<"_", "_">>)
    /\ \A f \in DOMAIN function_table : ~starts_with(f, <<"_", "_">>)

\* DEFN __x ( 0 ) { EXIT } PUSH 1 was rejected at the name and the rest of
\* the line dropped, after a function was defined and called.
C14_Witness ==
    /\ Len(parsed) > 1
    /\ Last(parsed) = Err(Reserved_prefix(Str___x))
    /\ tokens = <<>>
    /\ Str_foo \in DOMAIN function_table
    /\ Len(value_stack) = 1
    /\ Len(parsed) = 7

(***************************************************************************)
(* C16.  PUSH followed by an Argument token outside a DEFN body is a       *)
(* syntax error; next_instruction never returns PushArg as a top-level     *)
(* instruction, and in a session driven through the parser PushArg is only *)
(* executed as an instruction of the body of a called function.            *)
(***************************************************************************)
C16_ArgumentsOnlyInBodies ==
    /\ \A k \in 1..Len(requests) :
          ( /\ requests[k].place = "operand"
            /\ ~requests[k].inside_defn
            /\ requests[k].got.ok
            /\ requests[k].got.val.some
            /\ requests[k].got.val.x.t = "Argument" )
          => /\ parsed # <<>>
             /\ Last(parsed) = Err(Arguments_outside)
    /\ \A k \in 1..Len(parsed) :
          (parsed[k].ok /\ parsed[k].val.some) => parsed[k].val.x.op # "PushArg"
    /\ last.ins.op = "PushArg" =>
          /\ last.inv > 0
          /\ frames[last.inv].user
          /\ frames[last.inv].body[last.idx] = last.ins

\* A PushArg of the body of foo was executed in a call of foo, in a session
\* in which a top-level PUSH $0 had been rejected.
C16_Witness ==
    /\ last.ins.op = "PushArg"
    /\ last.inv > 0
    /\ frames[last.inv].f = Str_foo
    /\ \E k \in 1..Len(parsed) : parsed[k] = Err(Arguments_outside)

(***************************************************************************)
(* C11.  run executes a call without nesting: a CallIf that calls a user   *)
(* function only pushes the body on instruction_stack, above what was      *)
(* pending, and the one loop goes on with no instruction of the body       *)
(* executed yet.  For mutually recursive functions, at every depth, what   *)
(* run returns and the stack it leaves are those of the executor that      *)
(* nests one execution per call: the run completes or fails on the logic   *)
(* of the program alone.                                                   *)
(***************************************************************************)
C11_CallsAreScheduled ==
    [][ /\ ( /\ last'.ins.op = "CallIf"
             /\ Len(frames') > Len(frames)
             /\ frames'[Len(frames')].user )
           => /\ pc' = "loop"
              /\ ret' = NoRet
              /\ instruction_stack' =
                    Pending \o Reverse(frames'[Len(frames')].body)
              /\ frames'[Len(frames')].done = 0
        /\ pc = "loop" => Outcome' = Outcome
        /\ pc = "idle" => Outcome' = Done(Nested(RT, <<CallIf>>))
      ]_vars

\* foo has called bar and bar has called foo, each call consuming a datum;
\* the CallIf of the inner foo found none left and run returned the underflow.
C11_Witness ==
    /\ pc = "idle"
    /\ ret = <<Err(ERR_UNDERFLOW)>>
    /\ Len(frames) = 4
    /\ frames[2].f = Str_foo
    /\ frames[3].f = Str_bar
    /\ frames[4].f = Str_foo
    /\ last.ins = CallIf
    /\ last.inv = 4
    /\ instruction_stack = <<>>

(***************************************************************************)
(* C30.  A CallIf that fails with the type error on a value_stack of at    *)
(* least two words has removed the top word and the word below it,         *)
(* whichever of the two has the wrong type.                                *)
(***************************************************************************)
C30_TypeErrorRemovesBoth ==
    [][ ( /\ last'.ins.op = "CallIf"
          /\ Len(value_stack) >= 2
          /\ \/ value_stack[Len(value_stack)].tag = "Data"
             \/ /\ value_stack[Len(value_stack)].tag = "Function"
                /\ value_stack[Len(value_stack) - 1].tag = "Function"
          /\ ret' = <<Err(ERR_TYPE)>> )
        => value_stack' = SubSeq(value_stack, 1, Len(value_stack) - 2)
      ]_vars

(***************************************************************************)
(* Lines with a character that starts no token.                            *)
(***************************************************************************)
\* c begins no token, no whitespace and no comment
StartsNoToken(c) ==
    /\ ~is_whitespace(c)
    /\ ~is_ascii_digit(c)
    /\ ~is_alphabetic(c)
    /\ c \notin {"_", "*", "{", "}", "(", ")", "$", "/"}

\* the place of the first such character of a line, 0 if it has none
FirstStray(line) ==
    IF \E k \in 1..Len(line) : StartsNoToken(line[k])
    THEN CHOOSE k \in 1..Len(line) :
            /\ StartsNoToken(line[k])
            /\ \A j \in 1..(k - 1) : ~StartsNoToken(line[j])
    ELSE 0

\* the line has such a character, and neither a comment nor an argument
\* begins before it
HasStray(line) ==
    /\ FirstStray(line) > 0
    /\ \A j \in 1..(FirstStray(line) - 1) : line[j] \notin {"/", "$"}

\* the step is a call of next_token
CallsNextToken == parsed' # parsed /\ Last(parsed') # Cleared

(***************************************************************************)
(* C21.  When the line a call of next_token reads contains a character     *)
(* that starts no token, the call fails with the syntax error naming that  *)
(* character; no token of the line is queued, those before the character   *)
(* included, and the line is consumed: the following call of next_token    *)
(* goes on with the next line of the source.                               *)
(***************************************************************************)
C21_StrayCharacterDropsLine ==
    [][ /\ ( /\ CallsNextToken
             /\ tokens = <<>>
             /\ reader # <<>>
             /\ HasStray(reader[1]) )
           => /\ Last(parsed') =
                    Err(Unexpected_character(reader[1][FirstStray(reader[1])]))
              /\ tokens' = <<>>
              /\ reader' = Skip(reader, 1)
        /\ ( /\ CallsNextToken
             /\ parsed # <<>>
             /\ ~Last(parsed).ok
             /\ reader # <<>>
             /\ lex_line(reader[1]).ok
             /\ lex_line(reader[1]).val # <<>> )
           => /\ tokens = <<>>
              /\ Last(parsed') = Ok(Some(lex_line(reader[1]).val[1]))
              /\ tokens' = Skip(lex_line(reader[1]).val, 1)
              /\ reader' = Skip(reader, 1)
        /\ ( /\ CallsNextToken
             /\ parsed # <<>>
             /\ ~Last(parsed).ok
             /\ reader = <<>> )
           => Last(parsed') = Ok(None)
      ]_vars

\* "PUSH 1 - EXIT" failed on '-', and the next call returned the first token
\* of the line after it: PUSH and 1 were never delivered.
C21_Witness ==
    /\ Len(parsed) = 2
    /\ parsed[1] = Err(Unexpected_character("-"))
    /\ parsed[2] = Ok(Some(Token_Push))
    /\ tokens = <<Token_Word(u32(1)), Token_Push, Token_FunctionName(Str_foo)>>

(***************************************************************************)
(* C22.  clear discards the tokens queued and nothing else: right after it *)
(* full_line_consumed is true and the lines not yet read are as before;    *)
(* the next call of next_token returns the first token of the lines that   *)
(* follow, never a token of the line cleared.                              *)
(***************************************************************************)
C22_ClearDropsQueuedTokens ==
    [][ /\ (parsed' # parsed /\ Last(parsed') = Cleared)
           => /\ full_line_consumed([tokens |-> tokens', reader |-> reader'])
              /\ reader' = reader
        /\ ( /\ CallsNextToken
             /\ parsed # <<>>
             /\ Last(parsed) = Cleared
             /\ LinesLex(reader) )
           => \E following \in {LinesTokens(reader)} :
                 /\ following = <<>> => Last(parsed') = Ok(None)
                 /\ following # <<>> =>
                       /\ Last(parsed') = Ok(Some(following[1]))
                       /\ tokens' \o LinesTokens(reader') = Skip(following, 1)
      ]_vars

\* PUSH of "PUSH 1 PUSH foo" was delivered, the three tokens left of the line
\* were cleared, and the next call returned EXIT, the token of the next line.
C22_Witness ==
    /\ Len(parsed) = 3
    /\ parsed[1] = Ok(Some(Token_Push))
    /\ parsed[2] = Cleared
    /\ parsed[3] = Ok(Some(Token_Exit))
    /\ tokens = <<>>

(***************************************************************************)
(* The built-in functions, stated on the bits of their operands.           *)
(***************************************************************************)
RECURSIVE Pow2(_)
Pow2(i) == IF i = 0 THEN 1 ELSE 2 * Pow2(i - 1)

\* bit i of the half h
BitOf(h, i) == (h \div Pow2(i)) % 2

\* the half whose bit i is 0 exactly if bit i of a and bit i of b are both 1
RECURSIVE NandBits(_, _, _)
NandBits(a, b, i) ==
    IF Pow2(i) = Half
    THEN 0
    ELSE (1 - BitOf(a, i) * BitOf(b, i)) * Pow2(i) + NandBits(a, b, i + 1)

\* NOT (a AND b) on the 32 bits of a and b
BitwiseNand(a, b) ==
    [hi |-> NandBits(a.hi, b.hi, 0), lo |-> NandBits(a.lo, b.lo, 0)]

\* run(CallIf) begins on a value_stack with Function(f) on top, a non-zero
\* datum below it and at least count words below these
CallsBuiltin(f, count) ==
    /\ pc = "idle"
    /\ last'.ins.op = "CallIf"
    /\ Len(value_stack) >= count + 2
    /\ Last(value_stack) = Function(f)
    /\ value_stack[Len(value_stack) - 1].tag = "Data"
    /\ value_stack[Len(value_stack) - 1].n # u32(0)

\* the k-th word below the function word and the datum that decides the call
Operand(k) == value_stack[Len(value_stack) - 1 - k]

\* the words below the count operands
BelowCall(count) == SubSeq(value_stack, 1, Len(value_stack) - 2 - count)

(***************************************************************************)
(* C23.  __nand__ called on two data a (upper) and b replaces them by the  *)
(* datum NOT (a AND b) on 32 bits and leaves the words below unchanged;    *)
(* the datum is the same with a and b exchanged, and 12 and 10 give        *)
(* 4294967287.                                                             *)
(***************************************************************************)
C23_NandOfTopTwo ==
    [][ ( /\ CallsBuiltin(Str_nand, 2)
          /\ Operand(1).tag = "Data"
          /\ Operand(2).tag = "Data" )
        => /\ ret' = <<Ok(FALSE)>>
           /\ value_stack'
                 = Append(BelowCall(2),
                          Data(BitwiseNand(Operand(1).n, Operand(2).n)))
           /\ Last(value_stack')
                 = Data(BitwiseNand(Operand(2).n, Operand(1).n))
           /\ ({Operand(1).n, Operand(2).n} = {u32(12), u32(10)}
                  => Last(value_stack').n = [hi |-> 65535, lo |-> 65527])
      ]_vars

\* __nand__ has been called on 10 above 12 above a function word
C23_Witness ==
    /\ last.ins = CallIf
    /\ last.ops = <<Data(u32(1)), Function(Str_nand)>>
    /\ ret = <<Ok(FALSE)>>
    /\ value_stack = <<Function(Str_bar), Data([hi |-> 65535, lo |-> 65527])>>

\* the digits to the base Half of 2 * n, lowest first
DoubleDigits(n) ==
    <<(2 * n.lo) % Half,
      (2 * n.hi + (2 * n.lo) \div Half) % Half,
      (2 * n.hi + (2 * n.lo) \div Half) \div Half>>

\* r = (2 * n) mod 2^32
IsDoubleMod(r, n) == r.lo = DoubleDigits(n)[1] /\ r.hi = DoubleDigits(n)[2]

\* r = floor(n / 2): n is 2 * r or 2 * r + 1
IsFloorHalf(r, n) ==
    /\ DoubleDigits(r)[3] = 0
    /\ DoubleDigits(r)[2] = n.hi
    /\ n.lo - DoubleDigits(r)[1] \in {0, 1}

(***************************************************************************)
(* C24.  __shift_left__ called on a datum n replaces it by the datum       *)
(* (2 * n) mod 2^32 and __shift_right__ by the datum floor(n / 2), the     *)
(* words below unchanged; 2147483653 gives 10 and 1073741826.              *)
(***************************************************************************)
C24_ShiftsDoubleAndHalve ==
    [][ /\ ( CallsBuiltin(Str_shift_left, 1) /\ Operand(1).tag = "Data" )
           => /\ ret' = <<Ok(FALSE)>>
              /\ Len(value_stack') = Len(value_stack) - 2
              /\ Front(value_stack') = BelowCall(1)
              /\ Last(value_stack').tag = "Data"
              /\ IsDoubleMod(Last(value_stack').n, Operand(1).n)
              /\ (Operand(1).n = [hi |-> 32768, lo |-> 5]
                     => Last(value_stack') = Data(u32(10)))
        /\ ( CallsBuiltin(Str_shift_right, 1) /\ Operand(1).tag = "Data" )
           => /\ ret' = <<Ok(FALSE)>>
              /\ Len(value_stack') = Len(value_stack) - 2
              /\ Front(value_stack') = BelowCall(1)
              /\ Last(value_stack').tag = "Data"
              /\ IsFloorHalf(Last(value_stack').n, Operand(1).n)
              /\ (Operand(1).n = [hi |-> 32768, lo |-> 5]
                     => Last(value_stack') = Data([hi |-> 16384, lo |-> 2]))
      ]_vars

\* __shift_left__ has been called on 2147483653 above a function word
C24_Witness ==
    /\ last.ins = CallIf
    /\ last.ops = <<Data(u32(1)), Function(Str_shift_left)>>
    /\ ret = <<Ok(FALSE)>>
    /\ value_stack = <<Function(Str_bar), Data(u32(10))>>

\* n is a Unicode scalar value: below 0xD800, or from 0xE000 to 0x10FFFF
IsScalar(n) ==
    \/ n.hi = 0 /\ (n.lo < 55296 \/ n.lo > 57343)
    \/ 1 <= n.hi /\ n.hi <= 16

\* w is printed: a datum that is not 0 and is the code point of a character
Printed(w) == w.tag = "Data" /\ w.n # u32(0) /\ IsScalar(w.n)

\* the number of words on top of s that are printed
PrintedCount(s) ==
    CHOOSE k \in 0..Len(s) :
        /\ \A j \in 1..k : Printed(s[Len(s) + 1 - j])
        /\ k = Len(s) \/ ~Printed(s[Len(s) - k])

\* the code points of the k words on top of s, the topmost first
TopCodes(s, k) == [j \in 1..k |-> ToInt(s[Len(s) + 1 - j].n)]

(***************************************************************************)
(* C25.  __print__ called over the words s, of which the k on top are      *)
(* non-zero data that are Unicode scalar values: if a 0 lies below them,   *)
(* the call removes the k words and the 0 and has written the k values as  *)
(* characters, the topmost first (and fails only if the output cannot be   *)
(* flushed); if a Function word lies below them it fails with the type     *)
(* error, if a datum that is no scalar value with the invalid code point   *)
(* error, both with that word and the k words removed; if nothing lies     *)
(* below them it fails with stack underflow and the value_stack empty.     *)
(***************************************************************************)
C25_PrintPopsToZero ==
    [][ CallsBuiltin(Str_print, 0) =>
          \E s \in {BelowCall(0)} : \E k \in {PrintedCount(s)} :
              IF k = Len(s)
              THEN /\ ret' = <<Err(ERR_UNDERFLOW)>>
                   /\ value_stack' = <<>>
              ELSE /\ value_stack' = SubSeq(s, 1, Len(s) - k - 1)
                   /\ IF s[Len(s) - k].tag = "Function"
                      THEN ret' = <<Err(ERR_TYPE)>>
                      ELSE IF s[Len(s) - k].n = u32(0)
                      THEN /\ ret' \in {<<Ok(FALSE)>>, <<Err(ERR_STDOUT)>>}
                           /\ stdout' = stdout \o TopCodes(s, k)
                      ELSE ret' = <<Err(ERR_UTF32)>>
      ]_vars

\* __print__ has written the character 10 that lay on top and then the
\* character 0x10FFFF, and has removed both and the 0 below them
C25_Witness ==
    /\ last.ins = CallIf
    /\ last.ops = <<Data(u32(1)), Function(Str_print)>>
    /\ ret = <<Ok(FALSE)>>
    /\ stdout = <<10, 1114111>>
    /\ value_stack = <<>>

\* f is no function that a call can find: none of the five built-in names,
\* and either a reserved name or no key of function_table
NotCallable(f) ==
    /\ f \notin BuiltinNames
    /\ \/ Len(f) >= 2 /\ f[1] = "_" /\ f[2] = "_"
       \/ f \notin DOMAIN function_table

(***************************************************************************)
(* C26.  PushFunction(f) pushes Function(f) whatever f is; a CallIf with a *)
(* non-zero datum on a name that is none of the five built-ins and is      *)
(* either reserved or no key of function_table fails with the undefined    *)
(* error, the function word and the datum removed, the words below and     *)
(* function_table unchanged.                                               *)
(***************************************************************************)
C26_UndefinedFailsAtCall ==
    [][ /\ ( pc = "idle" /\ last'.ins.op = "PushFunction" )
           => /\ ret' = <<Ok(FALSE)>>
              /\ value_stack' = Append(value_stack, Function(last'.ins.f))
              /\ function_table' = function_table
        /\ \A f \in CalledNames :
             ( CallsBuiltin(f, 0) /\ NotCallable(f) )
             => /\ ret' = <<Err(ERR_UNDEFINED)>>
                /\ value_stack' = BelowCall(0)
                /\ function_table' = function_table
      ]_vars

\* a CallIf on the reserved name __x, which is a key of function_table, has
\* failed with the undefined error
C26_Witness ==
    /\ last.ins = CallIf
    /\ last.ops = <<Data(u32(1)), Function(Str___x)>>
    /\ Str___x \in DOMAIN function_table
    /\ ret = <<Err(ERR_UNDEFINED)>>
    /\ value_stack = <<Function(Str_bar)>>

(***************************************************************************)
(* After a syntax error.                                                   *)
(***************************************************************************)
\* The call of next_instruction that made the requests made failed with
\* the syntax error result inside the body of a DEFN, before the bracket
\* that closes the body.
FailedInBody(result, made) ==
    /\ ~result.ok
    /\ "msg" \in DOMAIN result.err
    /\ made # <<>>
    /\ made[1].got = Ok(Some(Token_Defn))
    /\ \E k \in 1..Len(made) : made[k].inside_defn
    /\ \A k \in 1..Len(made) : made[k].got # Ok(Some(Token_RightCurlyBracket))

\* the last call of next_instruction failed so
FailedInDefn == parsed # <<>> /\ FailedInBody(Last(parsed), requests)

\* the number of tokens the requests made were answered with
TokensGot(made) ==
    Cardinality({k \in 1..Len(made) : made[k].got.ok /\ made[k].got.val.some})

\* the tokens up to and including the first closing bracket
ToBracket(stream) ==
    CHOOSE j \in 0..Len(stream) :
        /\ \A k \in 1..j - 1 : stream[k] # Token_RightCurlyBracket
        /\ IF j = 0
           THEN \A k \in 1..Len(stream) : stream[k] # Token_RightCurlyBracket
           ELSE stream[j] = Token_RightCurlyBracket

\* This call of next_instruction leaves the first skipped tokens of the
\* remaining ones aside and parses one instruction from those after them.
ParsesAfter(skipped) ==
    \E stream \in {Skip(Remaining(LX), skipped)} :
    \E result \in {Last(parsed')} :
    \E lengths \in {{n \in 1..Len(stream) : IsInstr(Take(stream, n), TRUE, FALSE)}} :
        /\ \A n \in lengths :
              /\ result = Ok(Some(Denote(Take(stream, n))))
              /\ tokens' \o LinesTokens(reader') = Skip(stream, n)
        /\ (lengths = {} /\ stream = <<>>) => result = Ok(None)
        /\ (lengths = {} /\ stream # <<>>) => ~result.ok

(***************************************************************************)
(* C28 as stated: after next_instruction failed inside the body of a DEFN, *)
(* the tokens left of that DEFN, up to the bracket that closes its body,   *)
(* are not returned as instructions: if the next call returns an           *)
(* instruction, it is the one that follows the bracket.                    *)
(***************************************************************************)
C28_FailedConstructSkipped ==
    [][ ( /\ FailedInDefn
          /\ LinesLex(reader)
          /\ ToBracket(Remaining(LX)) > 0
          /\ parsed' # parsed
          /\ Last(parsed').ok
          /\ Last(parsed').val.some )
        => ParsesAfter(ToBracket(Remaining(LX)))
      ]_vars

(***************************************************************************)
(* C28.  A syntax error ends only the call of next_instruction that met    *)
(* it: the call that fails inside the body of a DEFN leaves the depth 0    *)
(* and has consumed the tokens it read and no other, and the next call     *)
(* parses an instruction from the token after them: what is left of the    *)
(* body of the failed DEFN is parsed as top-level instructions.            *)
(***************************************************************************)
C28_ParsingResumesAtNextToken ==
    [][ /\ ( /\ parsed' # parsed
             /\ LinesLex(reader)
             /\ FailedInBody(Last(parsed'), requests') )
           => /\ depth' = 0
              /\ tokens' \o LinesTokens(reader')
                    = Skip(Remaining(LX), TokensGot(requests'))
        /\ ( /\ FailedInDefn
             /\ LinesLex(reader)
             /\ parsed' # parsed )
           => /\ depth = 0
              /\ ParsesAfter(0)
      ]_vars

\* After PUSH *, the DEFN of foo failed at PUSH ( in its body, and the
\* PUSH foo that follows in the body was returned as an instruction.
C28_Witness ==
    /\ Len(parsed) = 3
    /\ parsed[1] = Ok(Some(PushRandom))
    /\ parsed[2] = Err(Unexpected_token(Token_LeftParen))
    /\ parsed[3] = Ok(Some(PushFunction(Str_foo)))
    /\ tokens = <<Token_Exit, Token_RightCurlyBracket, Token_Push,
                  Token_FunctionName(Str_foo)>>

(***************************************************************************)
(* The hosts.                                                              *)
(***************************************************************************)
\* a call of next_instruction returns in this step
Fetches == parsed' # parsed

\* the loop of the host has seen the end of input or an exit
Ended == AtEnd(parsed) \/ (pc = "idle" /\ ret = <<Ok(TRUE)>>)

(***************************************************************************)
(* C29.  Either host fetches an instruction only when no run call is in    *)
(* progress and gives the instruction fetched to run in the same           *)
(* iteration, so that run executes the instructions in the order           *)
(* next_instruction returns them and only those; once next_instruction has *)
(* reported the end of input or run has returned exit = true nothing is    *)
(* fetched or executed any more.                                           *)
(***************************************************************************)
C29_OneAtATimeUntilExit ==
    [][ /\ Fetches
           => /\ pc = "idle"
              /\ Front(parsed') = parsed
        /\ ( Fetches /\ Last(parsed').ok /\ Last(parsed').val.some )
           => /\ last'.ins = Last(parsed').val.x
              /\ last'.idx = 1
              /\ ~frames'[last'.inv].user
        /\ ( pc = "idle" /\ rvars' # rvars )
           => ( Fetches /\ Last(parsed').ok /\ Last(parsed').val.some )
        /\ Ended => vars' = vars
      ]_vars

\* EXIT was executed as the first instruction and a line of the source is
\* left unread
C29_Witness ==
    /\ parsed = <<Ok(Some(Exit))>>
    /\ pc = "idle"
    /\ ret = <<Ok(TRUE)>>
    /\ last.ins = Exit
    /\ Len(reader) = 1

\* a call of next_instruction or of run has failed
HostFailed ==
    \/ parsed # <<>> /\ ~Last(parsed).ok
    \/ pc = "idle" /\ ret # NoRet /\ ~ret[1].ok

(***************************************************************************)
(* C27.  After the first syntax error or runtime error run_from_files      *)
(* parses and executes nothing more.  run_interactive goes on: after an    *)
(* error its loop is left only at the end of input, a syntax error leaves  *)
(* value_stack and function_table as they were, and the next instruction   *)
(* is run on the Runtime as the failed instruction left it.                *)
(***************************************************************************)
C27_BatchStopsInteractiveGoesOn ==
    /\ []( ( /\ host = "run_interactive"
             /\ pc = "idle"
             /\ HostFailed
             /\ ~AtEnd(parsed) )
           => ENABLED Interactive )
    /\ [][ /\ ( host = "run_from_files" /\ HostFailed ) => vars' = vars
           /\ ( Fetches /\ ~Last(parsed').ok )
              => UNCHANGED <<value_stack, function_table>>
       ]_vars

\* run_interactive: the CALLIF of the first line failed on the undefined
\* foo, the second line was parsed and executed on the word left on
\* value_stack, and its CALLIF failed in turn
C27_Witness ==
    /\ host = "run_interactive"
    /\ Len(parsed) = 7
    /\ pc = "idle"
    /\ ret = <<Err(ERR_UNDEFINED)>>
    /\ value_stack = <<Data(u32(1))>>
    /\ reader = <<>>
    /\ tokens = <<>>

(***************************************************************************)
(* C31.  __nand__ removes both operand words before it looks at their      *)
(* types: called on one word only it fails with stack underflow, also when *)
(* that word is a Function, and leaves value_stack empty; called on two    *)
(* words of which one at least is a Function it fails with the type error  *)
(* and has removed both.                                                   *)
(***************************************************************************)
C31_NandPopsBothFirst ==
    [][ /\ ( CallsBuiltin(Str_nand, 1) /\ Len(value_stack) = 3 )
           => /\ ret' = <<Err(ERR_UNDERFLOW)>>
              /\ value_stack' = <<>>
        /\ ( /\ CallsBuiltin(Str_nand, 2)
             /\ "Function" \in {Operand(1).tag, Operand(2).tag} )
           => /\ ret' = <<Err(ERR_TYPE)>>
              /\ value_stack' = BelowCall(2)
      ]_vars

(***************************************************************************)
(* Bindings after a nested call.                                           *)
(***************************************************************************)
\* This step executes a PushArg of the body of the user function invoked
\* as F, which has executed one CallIf before.
PushArgAfterCall(F) ==
    /\ last'.ins.op = "PushArg"
    /\ last'.inv = F
    /\ F \in 1..Len(frames)
    /\ frames[F].user
    /\ Cardinality({k \in 1..frames[F].done : frames[F].body[k] = CallIf}) = 1

\* The call that F made invoked a user function of arity 0 (the first
\* invocation recorded after F) or a built-in (no invocation recorded, and
\* args_array written since F was entered).
CalledNoArguments(F) ==
    \/ Len(frames) > F /\ frames[F + 1].user /\ frames[F + 1].arity = 0
    \/ Len(frames) = F /\ argsOwner = 0

\* args_array as the call made last left it
LastBound == IF argsOwner = 0 THEN <<>> ELSE frames[argsOwner].args

C33_DefineOnlyWritesTable ==
    [][ /\ last'.ins.op = "Define"
           => /\ ~Failed(ret')
              /\ DOMAIN function_table' = DOMAIN function_table \cup {last'.ins.f}
              /\ function_table'[last'.ins.f]
                    = <<last'.ins.arg_count, last'.ins.body>>
              /\ \A g \in DOMAIN function_table \ {last'.ins.f} :
                    function_table'[g] = function_table[g]
              /\ value_stack' = value_stack
              /\ instruction_stack' = Pending
              /\ args_array' = args_array
        /\ last'.ins.op # "Define" => function_table' = function_table
        /\ ( InvokesUser /\ ~Failed(ret') )
           => /\ Len(value_stack') = Len(value_stack) - 2 - InvokedArity
              /\ instruction_stack'
                    = Pending \o Reverse(function_table[Last(value_stack).f][2])
      ]_vars

\* bar was defined anew while a call of bar with its earlier body is
\* pending
C33_Witness ==
    /\ last.ins.op = "Define"
    /\ last.ins.f = Str_bar
    /\ ~Failed(ret)
    /\ function_table[Str_bar] = <<last.ins.arg_count, last.ins.body>>
    /\ \E k \in 1..Len(frames) :
          /\ frames[k].user
          /\ frames[k].f = Str_bar
          /\ frames[k].body # last.ins.body

\* This step executes a CallIf that calls a defined user function with
\* fewer words left under the function word and the datum than its arity.
CallsUserShort ==
    /\ last'.ins.op = "CallIf"
    /\ Calls(value_stack)
    /\ ~starts_with(Last(value_stack).f, <<"_", "_">>)
    /\ Last(value_stack).f \in DOMAIN function_table
    /\ InvokedArity > Len(value_stack) - 2

(***************************************************************************)
(* C34.  A CallIf that calls a user function of arity k with fewer than k  *)
(* words left under the function word and the datum fails with the stack   *)
(* underflow error; the CallIf is the last instruction executed, no        *)
(* instruction is left scheduled, no invocation is recorded, and           *)
(* value_stack is empty after the failure: the words popped are not put    *)
(* back.                                                                   *)
(***************************************************************************)
C34_ShortCallUnderflows ==
    [][ CallsUserShort
        => /\ ret' = <<Err(ERR_UNDERFLOW)>>
           /\ value_stack' = <<>>
           /\ instruction_stack' = <<>>
           /\ pc' = "idle"
           /\ \A k \in 1..Len(frames') :
                 frames'[k].user => /\ k <= Len(frames)
                                    /\ frames[k].user
                                    /\ frames[k].f = frames'[k].f
           /\ function_table' = function_table
      ]_vars

\* bar of arity 2 was called over one word, which is gone
C34_Witness ==
    /\ last.ins.op = "CallIf"
    /\ last.ops = <<Data(u32(1)), Function(Str_bar)>>
    /\ Str_bar \in DOMAIN function_table
    /\ function_table[Str_bar][1] = u32(2)
    /\ ret = <<Err(ERR_UNDERFLOW)>>
    /\ value_stack = <<>>
    /\ args_array = <<Data(u32(2))>>

(***************************************************************************)
(* C35.  PushArg(i) with i < Len(args_array) pushes a copy of              *)
(* args_array[i] (counted from zero) onto value_stack and leaves           *)
(* args_array as it was, so that it can be repeated; with                  *)
(* i >= Len(args_array) it fails with the undefined error and leaves       *)
(* value_stack, args_array and function_table as they were.                *)
(***************************************************************************)
C35_PushArgCopies ==
    [][ last'.ins.op = "PushArg"
        => /\ args_array' = args_array
           /\ function_table' = function_table
           /\ IF last'.ins.i < Len(args_array)
              THEN /\ ~Failed(ret')
                   /\ value_stack' = Append(value_stack, args_array[last'.ins.i + 1])
              ELSE /\ ret' = <<Err(ERR_UNDEFINED)>>
                   /\ value_stack' = value_stack
      ]_vars

\* PushArg(0) pushed the one argument bound a second time
C35_Witness ==
    /\ last.ins = PushArg(0)
    /\ ~Failed(ret)
    /\ Len(args_array) = 1
    /\ Len(value_stack) >= 2
    /\ value_stack[Len(value_stack)] = args_array[1]
    /\ value_stack[Len(value_stack) - 1] = args_array[1]
    /\ \E k \in 1..Len(frames) :
          /\ frames[k].body = <<PushArg(0)>>
          /\ frames[k].done = 1

\* The DEFN constructs opened and not yet closed when the k-th token of an
\* instruction is requested: the DEFN tokens taken where an instruction
\* starts, less the braces that closed a body.
OpenDefns(made, k) ==
    Cardinality({j \in 1..(k - 1) :
                    /\ made[j].place = "instruction"
                    /\ made[j].got = Ok(Some(Token_Defn))})
        - Cardinality({j \in 1..(k - 1) :
                    /\ made[j].place = "instruction"
                    /\ made[j].inside_defn
                    /\ made[j].got = Ok(Some(Token_RightCurlyBracket))})

\* The first request of this call of next_instruction that found the queue
\* of the Lexer empty and so asked the Reader for a line: every request
\* before it took one token of the queue.
FirstLineRequest == Len(tokens) + 1

LexesDollarLine ==
    /\ parsed' # parsed
    /\ tokens = <<>>
    /\ reader # <<>>
    /\ reader[1] # <<>>
    /\ reader[1][1] = "$"

\* the digits that follow the "$" of a line, up to the first other character
DigitsAfterDollar(line) ==
    Take(Skip(line, 1), Cardinality({j \in 2..Len(line) :
                                        \A i \in 2..j : is_ascii_digit(line[i])}))

(***************************************************************************)
(* C37 as stated.  A "$" immediately followed by a run of digits of value  *)
(* n lexes as Argument(n); a "$" that no digit follows immediately (a      *)
(* character that is no digit, whitespace, the end of the line) makes      *)
(* next_token return a syntax error: the thread does not panic and no      *)
(* token is returned.                                                      *)
(***************************************************************************)
C37_DollarNeedsDigit ==
    [][ LexesDollarLine
        => IF DigitsAfterDollar(reader[1]) # <<>>
           THEN Last(parsed').ok
                => Last(parsed')
                      = Ok(Some(Token_Argument(
                            ToInt(parse_digits(DigitsAfterDollar(reader[1]),
                                               u32(0)).val))))
           ELSE /\ ~Last(parsed').ok
                /\ ~Panicked(parsed')
                /\ Last(parsed').err.msg = "Syntax error: Invalid word"
      ]_vars

(***************************************************************************)
(* C38.  Between two calls of run, instruction_stack is empty unless the   *)
(* call before returned Ok(true): after Ok(false) and after an error it is *)
(* empty.  When it is not empty, the next call of run executes first the   *)
(* instruction it was given; an instruction left over is executed only     *)
(* once that instruction and every body it scheduled are finished, and it  *)
(* is the one on top of instruction_stack.                                 *)
(***************************************************************************)
C38_LeftoversAfterOwn ==
    /\ [](( pc = "idle" /\ instruction_stack # <<>> ) => ret = <<Ok(TRUE)>>)
    /\ [][ /\ ( pc = "idle" /\ instruction_stack # <<>> )
              => /\ last'.inv = runInv'
                 /\ last'.idx = 1
                 /\ last'.ins = frames'[runInv'].body[1]
                 /\ Len(frames'[runInv'].body) = 1
                 /\ Len(frames') >= Len(frames) + 1
           /\ last'.inv < runInv'
              => /\ last'.ins = Last(instruction_stack)
                 /\ \A w \in runInv'..Len(frames') :
                       frames'[w].done = Len(frames'[w].body)
         ]_vars

\* A call of run given PUSH 1 after an Exit in a body has pushed its datum
\* and then run the instruction left over, and returned Ok(false).
C38_Witness ==
    /\ pc = "idle"
    /\ ret = <<Ok(FALSE)>>
    /\ instruction_stack = <<>>
    /\ runInv > 1
    /\ last.inv > 0
    /\ last.inv < runInv
    /\ frames[last.inv].user
    /\ frames[runInv].body = <<PushData(u32(1))>>

\* the instructions that the invocations made before invocation c have
\* scheduled and not yet executed
RECURSIVE PendingBelow(_, _)
PendingBelow(fr, c) ==
    IF c <= 1
    THEN 0
    ELSE PendingBelow(fr, c - 1) + Len(fr[c - 1].body) - fr[c - 1].done

\* Every invocation from c0 up to the one before n is of a user function
\* and has executed its whole body, the last instruction being a CallIf:
\* each made the next call as a tail call.
TailChain(fr, c0, n) ==
    \A w \in c0..(n - 1) :
        /\ fr[w].user
        /\ fr[w].body # <<>>
        /\ fr[w].done = Len(fr[w].body)
        /\ Last(fr[w].body).op = "CallIf"

\* This step executes a CallIf that enters the body of a user function.
EntersBody ==
    /\ last'.ins.op = "CallIf"
    /\ frames' # <<>>
    /\ Last(frames').user
    /\ Last(frames').done = 0
    /\ Last(frames').body # <<>>

(***************************************************************************)
(* C39.  A tail call does not grow instruction_stack.  When a body is      *)
(* entered, instruction_stack holds the body above the instructions the    *)
(* unfinished invocations still have to execute; so when a function is     *)
(* entered again through calls that are each the last instruction of the   *)
(* calling body, the length of instruction_stack is the length at the      *)
(* first entry, at every depth of the recursion.                           *)
(***************************************************************************)
C39_TailCallKeepsLength ==
    [][ EntersBody
        => /\ Len(instruction_stack')
                 = PendingBelow(frames', Len(frames')) + Len(Last(frames').body)
           /\ \A c0 \in 2..(Len(frames') - 1) :
                 ( /\ frames'[c0].f = Last(frames').f
                   /\ last'.inv >= c0
                   /\ TailChain(frames', c0, Len(frames')) )
                 => Len(instruction_stack')
                       = PendingBelow(frames', c0) + Len(frames'[c0].body)
      ]_vars

\* foo, called by run(CallIf), has called bar and bar has called foo, each
\* by the last instruction of its body: instruction_stack holds the two
\* instructions of foo as at the first entry.
C39_Witness ==
    /\ pc = "loop"
    /\ last.ins = CallIf
    /\ Len(frames) = 4
    /\ frames[2].f = Str_foo
    /\ frames[3].f = Str_bar
    /\ frames[4].f = Str_foo
    /\ frames[4].done = 0
    /\ TailChain(frames, 2, 4)
    /\ instruction_stack = Reverse(frames[2].body)
    /\ Len(instruction_stack) = 2

\* a call of run returns an error in this step
RunFails ==
    /\ pc' = "idle"
    /\ Failed(ret')
    /\ \/ pc = "loop"
       \/ Fetches /\ Last(parsed').ok /\ Last(parsed').val.some

(***************************************************************************)
(* C40.  In run_interactive a runtime error discards no token: when run    *)
(* fails, the tokens the failing instruction did not take are all still    *)
(* in the queue or in the Reader, the next call of next_instruction starts *)
(* with the first token of the queue, and the instruction it returns is    *)
(* executed.  After a syntax error the queue is empty: what was left of    *)
(* the current line is discarded before the next instruction is fetched.   *)
(***************************************************************************)
C40_RuntimeErrorKeepsLine ==
    [][ /\ ( RunFails /\ Fetches /\ LinesLex(reader) )
           => tokens' \o LinesTokens(reader')
                 = Skip(Remaining(LX), TokensGot(requests'))
        /\ ( RunFails /\ ~Fetches )
           => /\ tokens' = tokens
              /\ reader' = reader
        /\ ( pc = "idle" /\ Failed(ret) /\ tokens # <<>> /\ Fetches )
           => /\ requests'[1].got = Ok(Some(tokens[1]))
              /\ ( Last(parsed').ok /\ Last(parsed').val.some )
                 => /\ last'.ins = Last(parsed').val.x
                    /\ last'.inv = runInv'
                    /\ last'.idx = 1
        /\ ( Fetches /\ ~Last(parsed').ok ) => tokens' = <<>>
      ]_vars

\* CALLIF PUSH 1 PUSH $0 PUSH 1, then PUSH 1: the CALLIF failed in run and
\* the PUSH 1 after it was executed; PUSH $0 was a syntax error and the
\* PUSH 1 after it was discarded; the PUSH 1 of the second line was executed.
C40_Witness ==
    /\ Len(parsed) = 4
    /\ parsed[1] = Ok(Some(CallIf))
    /\ parsed[2] = Ok(Some(PushData(u32(1))))
    /\ parsed[3] = Err(Arguments_outside)
    /\ parsed[4] = Ok(Some(PushData(u32(1))))
    /\ value_stack = <<Data(u32(1)), Data(u32(1))>>
    /\ tokens = <<>>
    /\ reader = <<>>

====
